---- MODULE Spec2Model ----
(***************************************************************************)
(* A model of abstractshell's expect engine (src/abstractshell/            *)
(* shell_expect.py): the local pty transport, the screen sink that turns   *)
(* decoded terminal output into text, the LineIterator and the             *)
(* send / expect loop of PtyShellExpect.                                   *)
(*                                                                         *)
(* Text is a sequence of one-character strings.  The peer (the process     *)
(* behind the pty) produces `stream` over time; how much of it is readable *)
(* at the moment of a read, and whether the peer has gone away, is chosen  *)
(* by the environment at each read.  List indices are reported 0-based, as *)
(* the code reports them.                                                  *)
(***************************************************************************)
EXTENDS Integers, Sequences, FiniteSets, TLC

\* ------------------------------------------------------------------ bounds
\* longest stream the peer produces
MaxLen == 3
\* number of send / expect calls made in one session
MaxCalls == 3
\* number of operations dispatched to the screen sink, and of drains of it
MaxOps == 3
MaxDrains == 2
\* the calls made on the line iterator when it is driven directly
MaxLiCalls == 3
\* the calls made on _read_pty_raw when the transport is driven directly
MaxRawCalls == 2
\* the lines of rsync's output that progress() is given before the stream ends
MaxReports == 3

\* -------------------------------------------------------------- characters
CR == "\r"
LF == "\n"
\* "\b" and "\t" as TextBufferScreen.backspace and tab write them
BS == "BS"
TAB == "\t"
Chars == {"a", CR, LF}
Streams == UNION {[1..k -> Chars] : k \in 0..MaxLen}

\* SpecialConstants
EOF == "eof"
NO_LINE == "no_line"
\* Python's None in an index position
NoIndex == 0 - 1

\* n bytes requested by every _read of _read_pty_raw
ReadSize == 1024

\* ---------------------------------------------------------------- patterns
\* An entry of the list given to expect: the EOF sentinel, a str (compiled by
\* expect_match) or an already compiled regular expression.  src is the
\* regular expression's source: literal characters and the wildcard ".".
Sentinel == [kind |-> EOF, src |-> <<>>]
Str(s) == [kind |-> "str", src |-> s]
Re(s) == [kind |-> "re", src |-> s]
Dot == "."

\* the lists the caller passes to expect
PatternLists ==
  { <<Sentinel, Str(<<"a", "a">>)>>,
    <<Str(<<"a", "a">>), Str(<<"a">>)>>,
    <<Re(<<"a", Dot>>), Sentinel>>,
    <<Str(<<Dot>>), Re(<<"a">>)>> }

\* the lines the caller sends
SendLines == {<<"a">>}

\* (mutant) re.compile(re.escape(r)): a str entry is taken as literal text,
\* its "." becoming the escaped, literal dot
Compile_escape(regex) ==
  [i \in 1..Len(regex) |->
     IF regex[i].kind = "str"
       THEN Re([k \in 1..Len(regex[i].src) |->
                  IF regex[i].src[k] = Dot THEN "\\." ELSE regex[i].src[k]])
       ELSE regex[i]]

\* re.compile(r) for each str entry, in place
Compile(regex) ==
  [i \in 1..Len(regex) |->
     IF regex[i].kind = "str" THEN Re(regex[i].src) ELSE regex[i]]

\* r_ex.match(to_match): the pattern matches at the start of to_match; "."
\* matches any character except a newline
re_match(src, to_match) ==
  /\ Len(src) <= Len(to_match)
  /\ \A k \in 1..Len(src) :
       IF src[k] = Dot THEN to_match[k] # LF ELSE src[k] = to_match[k]

\* SpecialConstants.EOF in regex
HasEOF(regex) == \E i \in 1..Len(regex) : regex[i].kind = EOF

\* regex.index(SpecialConstants.EOF)
IndexOfEOF(regex) ==
  (CHOOSE i \in 1..Len(regex) :
     /\ regex[i].kind = EOF
     /\ \A j \in 1..(i - 1) : regex[j].kind # EOF) - 1

\* ------------------------------------------------------------- screen sink
draw(screen_buffer, text) == screen_buffer \o text
\* (mutant) backspace rubs out the last character, as a terminal would
backspace_rubout(screen_buffer) ==
  IF screen_buffer = <<>> THEN <<>>
  ELSE SubSeq(screen_buffer, 1, Len(screen_buffer) - 1)
\* (mutant) the drain returns the buffer and keeps it
readbuffer_peek(screen_buffer) == [val |-> screen_buffer, buffer |-> screen_buffer]
\* (mutant) every mode but 0 clears
erase_in_display_from_1(screen_buffer, how) ==
  IF how >= 1 THEN <<>> ELSE screen_buffer
carriage_return(screen_buffer) == Append(screen_buffer, CR)
linefeed(screen_buffer) == Append(screen_buffer, LF)
readbuffer(screen_buffer) == [val |-> screen_buffer, buffer |-> <<>>]
backspace(screen_buffer) == Append(screen_buffer, BS)
tab(screen_buffer) == Append(screen_buffer, TAB)
\* erase_in_display(how): a fresh buffer for how >= 2, nothing otherwise
erase_in_display(screen_buffer, how) == IF how >= 2 THEN <<>> ELSE screen_buffer

\* Bytes beyond ASCII: the two bytes of the UTF-8 form of one character
\* (0xC3 0xA9), and that character (U+00E9)
HI == "C3"
LO == "A9"
E_ACUTE == "U+00E9"

\* bytes.decode(), which is strict UTF-8: an ASCII byte decodes to the
\* character of the same code and HI LO to one character; a LO that follows
\* no HI, and a HI that no LO follows (also at the end of the bytes), raise
\* UnicodeDecodeError.  [ok, text]
RECURSIVE utf_8_decode(_)
utf_8_decode(buf) ==
  IF buf = <<>> THEN [ok |-> TRUE, text |-> <<>>]
  ELSE IF Head(buf) = HI
    THEN IF Len(buf) >= 2 /\ buf[2] = LO
           THEN LET r == utf_8_decode(SubSeq(buf, 3, Len(buf)))
                IN [ok |-> r.ok, text |-> <<E_ACUTE>> \o r.text]
           ELSE [ok |-> FALSE, text |-> <<>>]
  ELSE IF Head(buf) = LO THEN [ok |-> FALSE, text |-> <<>>]
  ELSE LET r == utf_8_decode(Tail(buf))
       IN [ok |-> r.ok, text |-> <<Head(buf)>> \o r.text]
Decodable(buf) == utf_8_decode(buf).ok
decode(buf) == utf_8_decode(buf).text
\* str.encode(), which is UTF-8: an ASCII character encodes to the byte of
\* the same code and E_ACUTE to the two bytes HI LO.
RECURSIVE encode(_)
encode(text) ==
  IF text = <<>> THEN <<>>
  ELSE (IF Head(text) = E_ACUTE THEN <<HI, LO>> ELSE <<Head(text)>>)
         \o encode(Tail(text))

\* stream.feed(text): the decoder dispatches each character to the sink
RECURSIVE feed(_, _)
feed(screen_buffer, text) ==
  IF text = <<>> THEN screen_buffer
  ELSE LET c == Head(text)
           sb == IF c = CR THEN carriage_return(screen_buffer)
                 ELSE IF c = LF THEN linefeed(screen_buffer)
                 ELSE draw(screen_buffer, <<c>>)
       IN feed(sb, Tail(text))

\* --------------------------------------------------------------- transport
\* A read result: eof, or data (possibly empty)
EOFResult == [eof |-> TRUE, data |-> <<>>]
Data(d) == [eof |-> FALSE, data |-> d]

\* (mutant) a descriptor that is not ready is taken for end of stream
_read_empty_is_eof(wire, peer_closed, n) ==
  IF wire # <<>>
    THEN Data(SubSeq(wire, 1, IF Len(wire) < n THEN Len(wire) ELSE n))
  ELSE EOFResult

\* PtyShellExpect._read(n) on a descriptor whose readable bytes are wire:
\* select() reports the descriptor ready when bytes are waiting or when the
\* peer is gone; os.read then returns up to n bytes, or fails with OSError
\* when the peer is gone and nothing is left
_read(wire, peer_closed, n) ==
  IF wire # <<>>
    THEN Data(SubSeq(wire, 1, IF Len(wire) < n THEN Len(wire) ELSE n))
  ELSE IF peer_closed THEN EOFResult
  ELSE Data(<<>>)

\* PtyShellExpect._continue_read: not ptyproc.eof(); the flag is set only by
\* ptyprocess' own read(), which this class never calls
_continue_read == TRUE

\* (mutant) end of stream discards the bytes the call has accumulated
RECURSIVE _read_pty_raw_loop_drop(_, _, _)
_read_pty_raw_loop_drop(wire, peer_closed, buf) ==
  IF ~_continue_read
    THEN (IF Len(buf) = 0 THEN EOFResult ELSE Data(buf))
  ELSE LET b == _read(wire, peer_closed, ReadSize)
       IN IF b.eof THEN EOFResult
          ELSE IF Len(b.data) = 0 THEN Data(buf)
          ELSE _read_pty_raw_loop_drop(SubSeq(wire, Len(b.data) + 1, Len(wire)),
                                       peer_closed, buf \o b.data)

RECURSIVE _read_pty_raw_loop(_, _, _)
_read_pty_raw_loop(wire, peer_closed, buf) ==
  IF ~_continue_read
    THEN (IF Len(buf) = 0 THEN EOFResult ELSE Data(buf))
  ELSE LET b == _read(wire, peer_closed, ReadSize)
       IN IF b.eof
            THEN (IF Len(buf) = 0 THEN EOFResult ELSE Data(buf))
          ELSE IF Len(b.data) = 0 THEN Data(buf)
          ELSE _read_pty_raw_loop(SubSeq(wire, Len(b.data) + 1, Len(wire)),
                                  peer_closed, buf \o b.data)

_read_pty_raw(wire, peer_closed) == _read_pty_raw_loop(wire, peer_closed, <<>>)

\* RemotePtyShellExpect._read1byte on a channel holding the bytes wire:
\* stdout.read(1) returns a byte, b"" once the channel is at its end, or
\* times out
Remote_read1byte(wire, chan_eof) ==
  IF wire # <<>> THEN Data(<<Head(wire)>>)
  ELSE IF chan_eof THEN EOFResult
  ELSE Data(<<>>)

\* (mutant) end of channel discards the bytes the call has read
RECURSIVE Remote_read_loop_drop(_, _, _, _)
Remote_read_loop_drop(wire, chan_eof, n, buf) ==
  IF n <= 0 THEN Data(buf)
  ELSE LET b == Remote_read1byte(wire, chan_eof)
       IN IF b.eof THEN EOFResult
          ELSE IF Len(b.data) = 0 THEN Data(buf)
          ELSE Remote_read_loop_drop(Tail(wire), chan_eof, n - 1, buf \o b.data)

\* RemotePtyShellExpect._read(n), from its buf
RECURSIVE Remote_read_loop(_, _, _, _)
Remote_read_loop(wire, chan_eof, n, buf) ==
  IF n <= 0 THEN Data(buf)
  ELSE LET b == Remote_read1byte(wire, chan_eof)
       IN IF b.eof THEN (IF Len(buf) = 0 THEN EOFResult ELSE Data(buf))
          ELSE IF Len(b.data) = 0 THEN Data(buf)
          ELSE Remote_read_loop(Tail(wire), chan_eof, n - 1, buf \o b.data)
Remote_read(wire, chan_eof, n) == Remote_read_loop(wire, chan_eof, n, <<>>)

\* RemotePtyShellExpect._continue_read: not chan.exit_status_ready()
Remote_continue_read(ready) == ~ready

\* _read_pty_raw as RemotePtyShellExpect runs it
\* readys holds what chan.exit_status_ready() answers at the tests of
\* _continue_read(), in order, the last entry standing for every test after
\* it: the loop's condition is tested again after every read that gave
\* bytes, and once more behind the loop when the loop ends on it
RECURSIVE Remote_read_pty_raw_loop(_, _, _, _)
Remote_read_pty_raw_loop(wire, chan_eof, readys, buf) ==
  IF ~Remote_continue_read(Head(readys))
    THEN LET after == IF Len(readys) > 1 THEN Tail(readys) ELSE readys
         IN IF ~Remote_continue_read(Head(after)) /\ Len(buf) = 0
              THEN EOFResult ELSE Data(buf)
  ELSE LET b == Remote_read(wire, chan_eof, ReadSize)
       IN IF b.eof
            THEN (IF Len(buf) = 0 THEN EOFResult ELSE Data(buf))
          ELSE IF Len(b.data) = 0 THEN Data(buf)
          ELSE Remote_read_pty_raw_loop(
                 SubSeq(wire, Len(b.data) + 1, Len(wire)), chan_eof,
                 IF Len(readys) > 1 THEN Tail(readys) ELSE readys,
                 buf \o b.data)
Remote_read_pty_raw(wire, chan_eof, readys) ==
  Remote_read_pty_raw_loop(wire, chan_eof, readys, <<>>)

\* PtyShellExpect._read_pty: [eof, text, n, err] with n the bytes taken off
\* the wire and err the UnicodeDecodeError of buf.decode()
_read_pty(wire, peer_closed) ==
  LET buf == _read_pty_raw(wire, peer_closed)
  IN IF buf.eof THEN [eof |-> TRUE, text |-> <<>>, n |-> 0, err |-> FALSE]
     ELSE IF Len(buf.data) = 0
       THEN [eof |-> FALSE, text |-> <<>>, n |-> 0, err |-> FALSE]
     ELSE IF ~Decodable(buf.data)
       THEN [eof |-> FALSE, text |-> <<>>, n |-> Len(buf.data), err |-> TRUE]
     ELSE [eof |-> FALSE,
           text |-> readbuffer(feed(<<>>, decode(buf.data))).val,
           n |-> Len(buf.data), err |-> FALSE]

\* ----------------------------------------------------------- line iterator
\* What next_line returns: EOF, NO_LINE or the tuple (r_ex, j, text, match);
\* an unmatched line is (None, None, line, None)
TokEOF == [type |-> EOF, j |-> NoIndex, line |-> <<>>, match |-> FALSE]
TokNoLine == [type |-> NO_LINE, j |-> NoIndex, line |-> <<>>, match |-> FALSE]
Tuple(j, line, match) == [type |-> "tuple", j |-> j, line |-> line, match |-> match]
NoMatch == [j |-> NoIndex, to_match |-> <<>>]

\* (mutant) the index counts the non-sentinel entries only
first_match_compact(match_re, to_match) ==
  LET hits == {j \in 1..Len(match_re) :
                 /\ match_re[j].kind # EOF
                 /\ re_match(match_re[j].src, to_match)}
      j0 == CHOOSE j \in hits : \A h \in hits : j <= h
  IN IF hits = {} THEN NoMatch
     ELSE [j |-> Cardinality({h \in 1..(j0 - 1) : match_re[h].kind # EOF}),
           to_match |-> to_match]

\* (mutant) the loop does not stop at the first pattern that matches
first_match_last(match_re, to_match) ==
  LET hits == {j \in 1..Len(match_re) :
                 /\ match_re[j].kind # EOF
                 /\ re_match(match_re[j].src, to_match)}
  IN IF hits = {} THEN NoMatch
     ELSE [j |-> (CHOOSE j \in hits : \A h \in hits : j >= h) - 1,
           to_match |-> to_match]

\* the for loop over match_re: sentinels are skipped, the first pattern
\* that matches to_match ends the loop
first_match(match_re, to_match) ==
  LET hits == {j \in 1..Len(match_re) :
                 /\ match_re[j].kind # EOF
                 /\ re_match(match_re[j].src, to_match)}
  IN IF hits = {} THEN NoMatch
     ELSE [j |-> (CHOOSE j \in hits : \A h \in hits : j <= h) - 1,
           to_match |-> to_match]

\* (mutant) the scan loop ends at the first prefix that a pattern matches
RECURSIVE scan_to_match(_, _, _, _)
scan_to_match(buffer, match_re, i, found_match) ==
  IF i >= Len(buffer) THEN [i |-> i, found_match |-> found_match]
  ELSE LET m == IF Len(match_re) > 0
                  THEN first_match(match_re, SubSeq(buffer, 1, i + 1))
                  ELSE NoMatch
       IN IF m.j # NoIndex THEN [i |-> i + 1, found_match |-> m]
          ELSE IF i + 1 < Len(buffer) /\ buffer[i + 1] = CR /\ buffer[i + 2] = LF
            THEN [i |-> i + 2, found_match |-> m]
          ELSE IF buffer[i + 1] = LF
            THEN [i |-> i + 1, found_match |-> m]
          ELSE scan_to_match(buffer, match_re, i + 1, m)

\* the scan loop of next_line from 0-based position i: [i, found_match]
RECURSIVE scan(_, _, _, _)
scan(buffer, match_re, i, found_match) ==
  IF i >= Len(buffer) THEN [i |-> i, found_match |-> found_match]
  ELSE LET m == IF Len(match_re) > 0
                  THEN first_match(match_re, SubSeq(buffer, 1, i + 1))
                  ELSE NoMatch
           found == IF m.j # NoIndex THEN m ELSE found_match
       IN IF i + 1 < Len(buffer) /\ buffer[i + 1] = CR /\ buffer[i + 2] = LF
            THEN [i |-> i + 2, found_match |-> found]
          ELSE IF buffer[i + 1] = LF
            THEN [i |-> i + 1, found_match |-> found]
          ELSE IF found.j # NoIndex /\ i + 1 >= Len(buffer)
            THEN [i |-> i + 1, found_match |-> found]
          ELSE scan(buffer, match_re, i + 1, found)

\* (mutant) a match is reported only for a line whose terminator has been
\* read
next_line_terminated(buffer, rd, match_re) ==
  LET read == (buffer = <<>>)
      buf == IF read /\ ~rd.eof THEN buffer \o rd.text ELSE buffer
  IN IF read /\ rd.eof
       THEN [res |-> TokEOF, buffer |-> buf, read |-> read, taken |-> 0]
     ELSE IF buf = <<>>
       THEN [res |-> TokNoLine, buffer |-> buf, read |-> read, taken |-> 0]
     ELSE LET s == scan(buf, match_re, 0, NoMatch)
              line == SubSeq(buf, 1, s.i)
              rest == IF s.i = Len(buf) THEN <<>>
                      ELSE SubSeq(buf, s.i + 1, Len(buf))
          IN IF line[Len(line)] # LF
               THEN [res |-> Tuple(NoIndex, line, FALSE),
                     buffer |-> rest, read |-> read, taken |-> s.i]
             ELSE [res |-> IF s.found_match.j # NoIndex
                             THEN Tuple(s.found_match.j, s.found_match.to_match, TRUE)
                             ELSE Tuple(NoIndex, line, FALSE),
                   buffer |-> rest, read |-> read, taken |-> s.i]

\* (mutant) every call pulls, whether text is buffered or not
next_line_pull_always(buffer, rd, match_re) ==
  LET buf == IF ~rd.eof THEN buffer \o rd.text ELSE buffer
  IN IF rd.eof /\ buf = <<>>
       THEN [res |-> TokEOF, buffer |-> buf, read |-> TRUE, taken |-> 0]
     ELSE IF buf = <<>>
       THEN [res |-> TokNoLine, buffer |-> buf, read |-> TRUE, taken |-> 0]
     ELSE LET s == scan(buf, match_re, 0, NoMatch)
              line == SubSeq(buf, 1, s.i)
              rest == IF s.i = Len(buf) THEN <<>>
                      ELSE SubSeq(buf, s.i + 1, Len(buf))
          IN [res |-> IF s.found_match.j # NoIndex
                        THEN Tuple(s.found_match.j, s.found_match.to_match, TRUE)
                        ELSE Tuple(NoIndex, line, FALSE),
              buffer |-> rest, read |-> TRUE, taken |-> s.i]

\* LineIterator.next_line(match_re) on self.buffer = buffer; rd is what
\* _read_pty returns if it is called: [res, buffer, read, taken]
next_line(buffer, rd, match_re) ==
  LET read == (buffer = <<>>)
      buf == IF read /\ ~rd.eof THEN buffer \o rd.text ELSE buffer
  IN IF read /\ rd.eof
       THEN [res |-> TokEOF, buffer |-> buf, read |-> read, taken |-> 0]
     ELSE IF buf = <<>>
       THEN [res |-> TokNoLine, buffer |-> buf, read |-> read, taken |-> 0]
     ELSE LET s == scan(buf, match_re, 0, NoMatch)
              line == SubSeq(buf, 1, s.i)
              rest == IF s.i = Len(buf) THEN <<>>
                      ELSE SubSeq(buf, s.i + 1, Len(buf))
          IN [res |-> IF s.found_match.j # NoIndex
                        THEN Tuple(s.found_match.j, s.found_match.to_match, TRUE)
                        ELSE Tuple(NoIndex, line, FALSE),
              buffer |-> rest, read |-> read, taken |-> s.i]

\* (mutant) the buffered text is returned but not dropped
exhaust_buffer_keep(buffer, rd) ==
  IF rd.eof
    THEN [ret |-> IF buffer # <<>> THEN Data(buffer) ELSE EOFResult,
          buffer |-> buffer]
  ELSE [ret |-> Data(buffer \o rd.text), buffer |-> buffer \o rd.text]

\* LineIterator.exhaust_buffer: [ret, buffer]; ret is EOF or text
exhaust_buffer(buffer, rd) ==
  IF rd.eof
    THEN [ret |-> IF buffer # <<>> THEN Data(buffer) ELSE EOFResult,
          buffer |-> <<>>]
  ELSE [ret |-> Data(buffer \o rd.text), buffer |-> <<>>]

\* ------------------------------------------------------------------- state
VARIABLES
  stream,                \* everything the peer produces during the session
  nread,                 \* bytes of stream taken off the transport so far
  closed,                \* the peer is gone: nothing more will be produced
  buffer,                \* LineIterator.buffer
  current_output_lines,  \* PtyShellExpect.current_output_lines
  line_history,          \* PtyShellExpect.line_history
  written,               \* the byte strings given to _write, in order
  pc,                    \* "idle", inside expect_match's loop, or inside send
  regex,                 \* expect_match's list, after compilation
  sending,               \* send's line argument
  result,                \* how the last expect ended
  calls,                 \* the finished calls, in order
  reads,                 \* the sizes of the non-empty reads, in order
  tok_pos,               \* for each entry of line_history, where its text starts in stream
  mark,                  \* what was noted at the calls: the list given to
                         \* expect, the history length and stream position at
                         \* the start of the running expect (call_*), at its
                         \* match (match_pos) and at the last send (send_*),
                         \* the length of the line terminator left unread
                         \* behind a match (owed), where the text read into
                         \* LineIterator.buffer ends in stream (buf_end), the
                         \* text a send discarded
  scanned,               \* the text the last next_line of the running expect scanned
  echo,                  \* expect_match's echo argument
  echoed,                \* the arguments printfn was called with by the running expect
  screen_buffer,         \* TextBufferScreen.buffer of a sink driven on its own
  title,                 \* TextBufferScreen.title of that sink
  ops,                   \* the operations dispatched to that sink since its last drain
  drains,                \* its drains so far: the value returned, the operations before it
  variant,               \* "local" (PtyShellExpect) or "remote" (RemotePtyShellExpect)
  alive,                 \* local: the process runs; remote: the exit status is not ready
  exitcode,              \* the exit code the process ends with
  exitstatus,            \* ptyproc.exitstatus
  transport_closed,      \* ptyproc.closed; for the remote variant, the channel is closed
  wpc,                   \* where wait_exit_status is: "none", "test", "read",
                         \* "after", "returned", or "raised"
  printed,               \* the arguments printfn was called with by wait_exit_status
  ret,                   \* what wait_exit_status returned
  li_log,                \* the calls made on the line iterator directly: what
                         \* each found, read and returned
  raw_log,               \* the calls made on _read_pty_raw directly: what
                         \* each found on the transport and returned
  rr_log,                \* the calls made on RemotePtyShellExpect._read directly
  wr_log,                \* the stdin.write calls of the remote variant: the
                         \* data and how each ended
  retry,                 \* a call of WrappedSSHClient._retry_ssh: where it
                         \* is, its retries argument, the attempts and
                         \* reconnects made and how the call ended
  prog,                  \* a call of RsyncProgress.progress: where it is, the
                         \* indices expect_match has reported to it, its
                         \* progress bar (none, open or closed), its
                         \* progress_closed flag and how it ended
  wmark                  \* noted at the call of wait_exit_status: the line
                         \* iterator's buffer and the bytes read so far; and
                         \* whether its loop was left by the break on EOF;
                         \* and its echo argument

\* the expect engine's variables, and those of the components modelled on
\* their own
main_vars == <<stream, nread, closed, buffer, current_output_lines,
               line_history, written, pc, regex, sending, result, calls, reads,
               tok_pos, mark, scanned, echo, echoed>>
sink_vars == <<screen_buffer, title, ops, drains>>
wait_vars == <<variant, alive, exitcode, exitstatus, transport_closed, wpc,
               printed, ret, wmark>>
aux_vars == <<retry, prog>>
li_vars == <<li_log, raw_log, rr_log, wr_log, aux_vars>>
side_vars == <<sink_vars, wait_vars, li_vars>>
vars == <<main_vars, side_vars>>

NoResult == [kind |-> "none", idx |-> NoIndex, text |-> <<>>, via |-> "none"]
Returned(idx, text, via) == [kind |-> "index", idx |-> idx, text |-> text, via |-> via]
Raised == [kind |-> "ShellExpectEOF", idx |-> NoIndex, text |-> <<>>, via |-> EOF]
\* the call ended by the UnicodeDecodeError of _read_pty
RaisedDecode == [kind |-> "UnicodeDecodeError", idx |-> NoIndex, text |-> <<>>,
                 via |-> "decode"]

\* PtyShellExpect.current_output
RECURSIVE Join(_)
Join(lines) == IF lines = <<>> THEN <<>> ELSE Head(lines) \o Join(Tail(lines))
current_output == Join(current_output_lines)

\* where the text of LineIterator.buffer starts in stream: stream and nread
\* count bytes, the buffer holds characters, and the buffer ends where the
\* last read of next_line ended (mark.buf_end), which the reads made past the
\* line iterator since then do not move
BufPos == IF buffer = <<>> THEN nread
          ELSE mark.buf_end - Len(encode(buffer))

\* the part of the line terminator that follows stream position q
Dangling(q) ==
  IF q < Len(stream) /\ stream[q + 1] = LF THEN 1
  ELSE IF q + 1 < Len(stream) /\ stream[q + 1] = CR /\ stream[q + 2] = LF THEN 2
  ELSE 0

\* Python's None as ptyproc.exitstatus, and the failure code of the remote
\* wait_exit_status
None == 0 - 2
NotReady == 0 - 1
\* what the transport has to report when the command is over: the exit code
\* of the process; on the remote variant what chan.recv_exit_status() returns,
\* which is the exit code the server sent, or -1 when the channel was closed
\* without the server sending one (chan.exit_status_ready() is true then too)
ExitCodes(v) == IF v = "remote" THEN {0 - 1, 0, 1} ELSE {0, 1}
Variants == {"local", "remote"}

InitWait(v, code) ==
  /\ variant = v
  /\ alive = TRUE
  /\ exitcode = code
  /\ exitstatus = None
  /\ transport_closed = FALSE
  /\ wpc = "none"
  /\ printed = <<>>
  /\ ret = None
  /\ wmark = [buffer |-> <<>>, nread |-> 0, by_eof |-> FALSE, echo |-> TRUE]

\* no call of _retry_ssh, of progress, has been made
NoRetry == [pc |-> "none", fn |-> "none", retries |-> 0, events |-> <<>>,
            result |-> [kind |-> "none", at |-> 0]]
NoProgress == [pc |-> "none", multiple |-> FALSE, seen |-> <<>>, bar |-> "none",
               total |-> 0, progress_closed |-> FALSE, result |-> "none"]

InitSessionOn(streams) ==
  /\ stream \in streams
  /\ nread = 0
  /\ closed = FALSE
  /\ buffer = <<>>
  /\ current_output_lines = <<>>
  /\ line_history = <<>>
  /\ written = <<>>
  /\ pc = "idle"
  /\ regex = <<>>
  /\ sending = <<>>
  /\ result = NoResult
  /\ calls = <<>>
  /\ reads = <<>>
  /\ tok_pos = <<>>
  /\ mark = [patterns |-> <<>>, call_no |-> 0, call_hist |-> 0, call_pos |-> 0,
             call_owed |-> 0, match_pos |-> 0, owed |-> 0, buf_end |-> 0,
             sent |-> FALSE,
             send_no |-> 0, send_hist |-> 0, send_pos |-> 0, stale |-> 0]
  /\ scanned = <<>>
  /\ echo = TRUE
  /\ echoed = <<>>
  /\ screen_buffer = <<>>
  /\ title = <<>>
  /\ ops = <<>>
  /\ drains = <<>>
  /\ li_log = <<>>
  /\ raw_log = <<>>
  /\ rr_log = <<>>
  /\ wr_log = <<>>
  /\ retry = NoRetry
  /\ prog = NoProgress

InitSession == InitSessionOn(Streams)
Init == InitSession /\ InitWait("local", 0)

\* What the environment decides at a read: how many of the bytes not yet read
\* are readable now, and whether the peer is gone (only once it has produced
\* everything)
Readable == 0..(Len(stream) - nread)
Gone(avail) ==
  IF closed THEN {TRUE}
  ELSE IF avail = Len(stream) - nread THEN {TRUE, FALSE} ELSE {FALSE}
Wire(avail) == SubSeq(stream, nread + 1, nread + avail)

\* -------------------------------------------------------------- expect_match
\* (mutant) end of stream without the sentinel ends the call with None
eof_outcome_silent(regex_) ==
  IF ~HasEOF(regex_) THEN Returned(NoIndex, <<>>, EOF)
  ELSE Returned(IndexOfEOF(regex_), <<>>, EOF)

\* (mutant) the sentinel is taken to be the first entry of the list
eof_outcome_first_entry(regex_) ==
  IF ~HasEOF(regex_) THEN Raised
  ELSE Returned(0, <<>>, EOF)

\* expect_match on an EOF token: ShellExpectEOF, or the sentinel's index
eof_outcome(regex_) ==
  IF ~HasEOF(regex_) THEN Raised
  ELSE Returned(IndexOfEOF(regex_), <<>>, EOF)

\* (mutant) only lines are recorded, not the end of the stream
history_append_lines(history, res) ==
  IF res.type = "tuple" THEN Append(history, res) ELSE history

\* if res is not SpecialConstants.NO_LINE: self.line_history.append(res)
history_append(history, res) ==
  IF res.type # NO_LINE THEN Append(history, res) ELSE history

\* expect_match(regex, echo) up to its loop: the list is compiled and the
\* window is reset
expect_match_begin(patterns, e) ==
  /\ pc = "idle"
  /\ regex' = Compile(patterns)
  /\ current_output_lines' = <<>>
  /\ pc' = "expect"
  /\ result' = NoResult
  /\ scanned' = <<>>
  /\ mark' = [mark EXCEPT !.patterns = patterns, !.call_no = Len(calls),
                !.call_hist = Len(line_history), !.call_pos = BufPos,
                !.call_owed = mark.owed]
  /\ echo' = e
  /\ echoed' = <<>>
  /\ UNCHANGED <<stream, nread, closed, buffer, line_history, written, sending,
                 calls, reads, tok_pos>>

\* a call of expect_match made on the session itself
expect_match_enter(patterns, e) ==
  /\ Len(calls) < MaxCalls
  /\ expect_match_begin(patterns, e)
  /\ UNCHANGED side_vars

\* expect(regex): echo has its default, True
ExpectCall(patterns) == expect_match_enter(patterns, TRUE)

\* One pass of expect_match's loop with what the transport offers.  A chunk
\* that does not decode ends the call with UnicodeDecodeError: its bytes are
\* gone, nothing else has changed.
ExpectPass(avail, gone) ==
  LET rd == _read_pty(Wire(avail), gone)
      nl == next_line(buffer, rd, regex)
      res == nl.res
      n == IF nl.read THEN nread + rd.n ELSE nread
      held == IF nl.read /\ ~rd.eof THEN buffer \o rd.text ELSE buffer
      start == BufPos
      noted == [mark EXCEPT !.buf_end = IF nl.read THEN n ELSE mark.buf_end]
      done(r) ==
        /\ result' = r
        /\ pc' = "idle"
        /\ calls' = Append(calls, [op |-> "expect", regex |-> regex,
                                   kind |-> r.kind, idx |-> r.idx])
  IN IF buffer = <<>> /\ rd.err
       THEN /\ nread' = nread + rd.n
            /\ closed' = gone
            /\ reads' = Append(reads, rd.n)
            /\ done(RaisedDecode)
            /\ UNCHANGED <<stream, buffer, current_output_lines, line_history,
                           written, regex, sending, tok_pos, mark, scanned,
                           echo, echoed>>
            /\ UNCHANGED side_vars
       ELSE
     /\ nread' = n
     /\ closed' = IF nl.read THEN gone ELSE closed
     /\ reads' = IF nl.read /\ rd.n > 0 THEN Append(reads, rd.n) ELSE reads
     /\ buffer' = nl.buffer
     /\ scanned' = held
     /\ line_history' = history_append(line_history, res)
     /\ tok_pos' = IF res.type # NO_LINE THEN Append(tok_pos, start) ELSE tok_pos
     /\ IF res.type = "tuple" /\ res.match
          THEN /\ done(Returned(res.j, res.line, "match"))
               /\ mark' = [noted EXCEPT !.match_pos = start,
                             !.owed = IF nl.buffer = <<>> /\ stream[n] # LF
                                        THEN Dangling(n) ELSE 0]
               /\ UNCHANGED current_output_lines
        ELSE IF res.type = "tuple"
          THEN /\ current_output_lines' = Append(current_output_lines, res.line)
               /\ mark' = noted
               /\ UNCHANGED <<result, pc, calls>>
        ELSE IF res.type = EOF
          THEN /\ done(eof_outcome(regex))
               /\ mark' = [noted EXCEPT !.owed = 0]
               /\ UNCHANGED current_output_lines
        ELSE /\ mark' = noted
             /\ UNCHANGED <<result, pc, calls, current_output_lines>>
     /\ echoed' = IF res.type = "tuple" /\ echo THEN Append(echoed, res.line)
                   ELSE echoed
     /\ UNCHANGED <<stream, written, regex, sending, echo>>
     /\ UNCHANGED side_vars

ExpectLoop ==
  /\ pc = "expect"
  /\ IF buffer = <<>>
       THEN \E avail \in Readable : \E gone \in Gone(avail) : ExpectPass(avail, gone)
       ELSE ExpectPass(0, closed)

\* ---------------------------------------------------------------------- send
\* (mutant) the line is written before the buffer is exhausted
send_write_before_exhaust(line, avail, gone) ==
  /\ written' = Append(written, encode(line))
  /\ sending' = line
  /\ pc' = "send_write"
  /\ mark' = [mark EXCEPT !.sent = TRUE, !.send_no = Len(calls),
                !.send_hist = Len(line_history),
                !.send_pos = nread, !.owed = 0,
                !.stale = Len(encode(buffer))]
  /\ UNCHANGED <<stream, nread, closed, buffer, current_output_lines,
                 line_history, regex, result, calls, reads, tok_pos, scanned,
                 echo, echoed>>
  /\ UNCHANGED side_vars

\* send up to its first write: self.line_itr.exhaust_buffer().  A chunk that
\* does not decode ends send there with UnicodeDecodeError: nothing is
\* written and the buffer is as it was.
send_exhaust(line, avail, gone) ==
  LET rd == _read_pty(Wire(avail), gone)
      ex == exhaust_buffer(buffer, rd)
  IN IF rd.err
       THEN /\ nread' = nread + rd.n
            /\ closed' = gone
            /\ reads' = Append(reads, rd.n)
            /\ calls' = Append(calls, [op |-> "send", regex |-> <<>>,
                                       kind |-> RaisedDecode.kind, idx |-> NoIndex])
            /\ written' = written
            /\ UNCHANGED <<stream, buffer, current_output_lines, line_history,
                           pc, regex, sending, result, tok_pos, mark, scanned,
                           echo, echoed>>
            /\ UNCHANGED side_vars
       ELSE
     /\ nread' = nread + rd.n
     /\ closed' = gone
     /\ reads' = IF rd.n > 0 THEN Append(reads, rd.n) ELSE reads
     /\ buffer' = ex.buffer
     /\ sending' = line
     /\ pc' = "send_write"
     /\ mark' = [mark EXCEPT !.sent = TRUE, !.send_no = Len(calls),
                   !.send_hist = Len(line_history),
                   !.send_pos = nread + rd.n, !.owed = 0,
                   !.stale = Len(encode(buffer)) + rd.n]
     /\ written' = written
     /\ UNCHANGED <<stream, current_output_lines, line_history, regex,
                    result, calls, tok_pos, scanned, echo, echoed>>
     /\ UNCHANGED side_vars

\* send(line); once ptyproc is closed its fd is -1 and _read answers EOF
\* without looking at the descriptor
SendCall(line) ==
  /\ pc = "idle"
  /\ Len(calls) < MaxCalls
  /\ IF transport_closed
       THEN send_exhaust(line, 0, TRUE)
       ELSE \E avail \in Readable : \E gone \in Gone(avail) :
              send_exhaust(line, avail, gone)

\* self._write(line); ptyproc.write on a closed ptyproc raises ValueError,
\* which ends send with nothing written
SendWrite ==
  /\ pc = "send_write"
  /\ IF transport_closed
       THEN /\ written' = written
            /\ pc' = "idle"
            /\ calls' = Append(calls, [op |-> "send", regex |-> <<>>,
                                       kind |-> "ValueError", idx |-> NoIndex])
       ELSE /\ written' = Append(written, encode(sending))
            /\ pc' = "send_write_lf"
            /\ calls' = calls
  /\ UNCHANGED <<stream, nread, closed, buffer, current_output_lines,
                 line_history, regex, sending, result, reads, tok_pos,
                 mark, scanned, echo, echoed>>
  /\ UNCHANGED side_vars

\* self._write(lf, flush=True), and send returns
SendWriteLf ==
  /\ pc = "send_write_lf"
  /\ written' = Append(written, encode(<<LF>>))
  /\ pc' = "idle"
  /\ calls' = Append(calls, [op |-> "send", regex |-> <<>>, kind |-> "none",
                             idx |-> NoIndex])
  /\ UNCHANGED <<stream, nread, closed, buffer, current_output_lines,
                 line_history, regex, sending, result, reads, tok_pos, mark,
                 scanned, echo, echoed>>
  /\ UNCHANGED side_vars

Next ==
  \/ \E patterns \in PatternLists : ExpectCall(patterns)
  \/ ExpectLoop
  \/ \E line \in SendLines : SendCall(line)
  \/ SendWrite
  \/ SendWriteLf

Spec == Init /\ [][Next]_vars

\* ------------------------------------------------------------ sanity checks
TypeOK ==
  /\ nread \in 0..Len(stream)
  /\ buffer = SubSeq(stream, BufPos + 1, nread)
  /\ Len(tok_pos) = Len(line_history)
  /\ pc \in {"idle", "expect", "send_write", "send_write_lf"}

\* ------------------------------------------------------------------ claims
\* the token that ended the last expect
LastTok == line_history[Len(line_history)]
\* an expect has finished and no other has started since
Finished == result # NoResult
IsPrefix(p, t) == Len(p) <= Len(t) /\ SubSeq(t, 1, Len(p)) = p
HasLF(t) == \E k \in 1..Len(t) : t[k] = LF

\* C1: with no EOF sentinel in the pattern list, an expect that meets end of
\* stream raises ShellExpectEOF; it never returns an index or None.  An
\* expect on such a list ends in a match or in the exception, and in nothing
\* else, also on the first call on a stream that never produced a byte.
C1_EofWithoutSentinelRaises ==
  (Finished /\ ~HasEOF(regex)) =>
    IF LastTok.type = EOF
      THEN result = Raised
      ELSE /\ result.kind = "index"
           /\ result.via = "match"
           /\ LastTok.match
           /\ result.idx \in 0..(Len(regex) - 1)

C1_Witness ==
  /\ stream = <<>>
  /\ nread = 0
  /\ Len(calls) = 1
  /\ line_history = <<TokEOF>>
  /\ result = Raised

\* C2: with the EOF sentinel in the pattern list, an expect that meets end
\* of stream returns the position of the (first) sentinel in that list and
\* raises nothing; the result differs from the failure of C1.
C2_EofWithSentinelReturnsItsIndex ==
  (Finished /\ HasEOF(regex) /\ LastTok.type = EOF) =>
    /\ result.kind = "index"
    /\ result.via = EOF
    /\ result.idx \in 0..(Len(regex) - 1)
    /\ regex[result.idx + 1] = Sentinel
    /\ \A j \in 1..result.idx : regex[j] # Sentinel
    /\ result # Raised
    /\ result.kind # Raised.kind

C2_Witness ==
  /\ Finished
  /\ LastTok.type = EOF
  /\ result.kind = "index"
  /\ result.idx = 1
  /\ regex[2] = Sentinel

\* the text of a stream that is exactly one terminated line, terminator
\* removed; OneLine says the stream is of that shape
LineText(t) ==
  IF Len(t) >= 2 /\ t[Len(t) - 1] = CR THEN SubSeq(t, 1, Len(t) - 2)
  ELSE SubSeq(t, 1, Len(t) - 1)
OneLine(t) ==
  /\ t # <<>>
  /\ t[Len(t)] = LF
  /\ \A k \in 1..Len(LineText(t)) : LineText(t)[k] \notin {CR, LF}

\* C3: the stream is one terminated line that pattern k matches, then it
\* closes, and the list also holds the EOF sentinel: the first expect
\* returns k and every later expect with the same list returns the
\* sentinel's index (the line is matched once, and end of stream is
\* reported on every call after that).
C3_OneLineThenSentinel ==
  (/\ OneLine(stream)
   /\ calls # <<>>
   /\ \A n \in 1..Len(calls) : calls[n].op = "expect" /\ calls[n].regex = calls[1].regex
   /\ HasEOF(calls[1].regex)
   /\ first_match(calls[1].regex, LineText(stream)).j # NoIndex)
  => /\ calls[1].kind = "index"
     /\ calls[1].idx = first_match(calls[1].regex, LineText(stream)).j
     /\ \A n \in 2..Len(calls) :
          calls[n].kind = "index" /\ calls[n].idx = IndexOfEOF(calls[1].regex)

\* A session replayed on a closed stream that reaches the line iterator as
\* the given chunks: what each call of expect returns.  The replay runs
\* next_line and eof_outcome as expect_match does.
RECURSIVE replay_expect(_, _, _)
replay_expect(chunks, buf, regex_) ==
  LET rd == IF chunks = <<>> THEN [eof |-> TRUE, text |-> <<>>, n |-> 0]
            ELSE [eof |-> FALSE, text |-> Head(chunks), n |-> Len(Head(chunks))]
      nl == next_line(buf, rd, regex_)
      rest == IF nl.read /\ chunks # <<>> THEN Tail(chunks) ELSE chunks
  IN IF nl.res.type = "tuple" /\ nl.res.match
       THEN [out |-> Returned(nl.res.j, nl.res.line, "match"),
             chunks |-> rest, buffer |-> nl.buffer]
     ELSE IF nl.res.type = EOF
       THEN [out |-> eof_outcome(regex_), chunks |-> rest, buffer |-> nl.buffer]
     ELSE replay_expect(rest, nl.buffer, regex_)

RECURSIVE replay(_, _, _)
replay(chunks, buf, lists) ==
  IF lists = <<>> THEN <<>>
  ELSE LET r == replay_expect(chunks, buf, Head(lists))
       IN <<[kind |-> r.out.kind, idx |-> r.out.idx]>>
            \o replay(r.chunks, r.buffer, Tail(lists))

\* the stream as it was read: chunk k lies between Cut(k - 1) and Cut(k)
RECURSIVE Cut(_)
Cut(k) == IF k = 0 THEN 0 ELSE Cut(k - 1) + reads[k]
ChunksRead == [k \in 1..Len(reads) |-> SubSeq(stream, Cut(k - 1) + 1, Cut(k))]

\* the same chunks of the stream whose CRLF terminators are bare LFs: the
\* CR of every CR LF pair is left out
RECURSIVE LfOnly(_, _)
LfOnly(lo, hi) ==
  IF lo >= hi THEN <<>>
  ELSE (IF stream[lo + 1] = CR /\ lo + 1 < Len(stream) /\ stream[lo + 2] = LF
          THEN <<>> ELSE <<stream[lo + 1]>>) \o LfOnly(lo + 1, hi)
ChunksReadLfOnly == [k \in 1..Len(reads) |-> LfOnly(Cut(k - 1), Cut(k))]

Outcomes == [n \in 1..Len(calls) |-> [kind |-> calls[n].kind, idx |-> calls[n].idx]]
Lists == [n \in 1..Len(calls) |-> calls[n].regex]
\* the session made only expect calls and its last one met end of stream:
\* the whole stream has been read
RanToEOF ==
  /\ pc = "idle"
  /\ ~mark.sent
  /\ calls # <<>>
  /\ result.via = EOF

\* the replay of the session that ran agrees with what it returned
ReplayAgrees == RanToEOF => Outcomes = replay(ChunksRead, <<>>, Lists)

\* C4: LF and CRLF termination are equivalent: the same expect calls on the
\* stream with every CRLF replaced by LF, split at the same places, end the
\* same way (same indices, same failures).
C4_LfCrlfEquivalent ==
  RanToEOF => Outcomes = replay(ChunksReadLfOnly, <<>>, Lists)

\* the non-sentinel entries of the running list that match text t
Matching(t) ==
  {j \in 1..Len(regex) : regex[j].kind # EOF /\ re_match(regex[j].src, t)}

\* C5: a prompt with no trailing newline is matched: when the text the line
\* iterator holds has no line terminator and starts with text that a
\* non-sentinel pattern matches, that pass of expect returns the index of
\* such a pattern, with a prefix of that text as the matched text.
C5_PromptWithoutNewline ==
  (/\ scanned # <<>>
   /\ ~HasLF(scanned)
   /\ Matching(scanned) # {})
  => /\ pc # "expect"
     /\ result.kind = "index"
     /\ result.via = "match"
     /\ result.idx + 1 \in Matching(scanned)
     /\ IsPrefix(result.text, scanned)
     /\ LastTok.match

\* an index was returned although no line terminator was ever read
C5_Witness ==
  /\ result.via = "match"
  /\ scanned # <<>>
  /\ ~HasLF(SubSeq(stream, 1, nread))
  /\ ~HasLF(stream)
  /\ ~closed

\* the entries of line_history added by the running (or last) expect, but
\* for the one that ended it
CallLines ==
  [k \in 1..(Len(line_history) - mark.call_hist - 1) |->
     line_history[mark.call_hist + k].line]

\* C6: after an expect returns a match, current_output is the text of the
\* unmatched lines consumed during the call, and holds neither the matched
\* line, nor the terminator of the line the previous expect matched, nor a
\* line consumed by an earlier call: it is the stream text from the start of
\* the call, past the terminator the previous match left behind, up to the
\* matched text.
C6_WindowExcludesPreviousTerminator ==
  result.via = "match" =>
    current_output =
      SubSeq(stream, mark.call_pos + mark.call_owed + 1, mark.match_pos)

\* what expect_match does keep of C6: the window is the texts of exactly the
\* unmatched lines next_line returned during the call, which is all the
\* stream text between the place where the call began to consume and the
\* matched text.  A terminator the previous match left unread is one of those
\* lines.
C6_WindowIsUnmatchedLinesOfCall ==
  result.via = "match" =>
    /\ current_output_lines = CallLines
    /\ \A k \in (mark.call_hist + 1)..(Len(line_history) - 1) :
         line_history[k].type = "tuple" /\ ~line_history[k].match
    /\ LastTok.match
    /\ tok_pos[Len(tok_pos)] = mark.match_pos
    /\ current_output = SubSeq(stream, mark.call_pos + 1, mark.match_pos)

\* the expect after a match made before the line's terminator was read has
\* returned a match, and the window starts with that terminator
C6_Witness ==
  /\ result.via = "match"
  /\ mark.call_owed > 0
  /\ Len(calls) >= 2
  /\ current_output # <<>>
  /\ current_output_lines[1] = SubSeq(stream, mark.call_pos + 1,
                                      mark.call_pos + mark.call_owed)

\* C7: stale output does not leak across send: when send has returned the
\* line iterator's buffer is empty, and nothing that was buffered or
\* readable before the send reaches a later expect: every line produced
\* after the send is stream text from beyond what the send discarded.
C7_NoStaleOutputAfterSend ==
  mark.sent =>
    /\ BufPos >= mark.send_pos
    /\ (pc # "expect" /\ calls # <<>> /\ calls[Len(calls)].op = "send")
         => buffer = <<>>
    /\ (pc \in {"send_write", "send_write_lf"}) => buffer = <<>>
    /\ \A k \in (mark.send_hist + 1)..Len(line_history) :
         /\ tok_pos[k] >= mark.send_pos
         /\ line_history[k].type = "tuple" =>
              IsPrefix(line_history[k].line,
                       SubSeq(stream, tok_pos[k] + 1, Len(stream)))
    /\ mark.call_no > mark.send_no =>
         /\ mark.call_pos >= mark.send_pos
         /\ IsPrefix(current_output,
                     SubSeq(stream, mark.call_pos + 1, Len(stream)))

\* a send discarded text and a later expect consumed a line
C7_Witness ==
  /\ mark.sent
  /\ mark.stale > 0
  /\ Len(line_history) > mark.send_hist
  /\ LastTok.type = "tuple"
  /\ pc = "idle"

\* C8: inside send the steps come in a fixed order: the buffer is discarded
\* before anything is written, then the text is written, then the line
\* terminator, once.
C8_SendOrder ==
  [][written' # written =>
       /\ pc \in {"send_write", "send_write_lf"}
       /\ mark.sent
       /\ buffer = <<>>
       /\ BufPos = nread
       /\ pc = "send_write" =>
            written' = Append(written, encode(sending)) /\ pc' = "send_write_lf"
       /\ pc = "send_write_lf" =>
            /\ written' = Append(written, encode(<<LF>>))
            /\ written[Len(written)] = encode(sending)
            /\ pc' = "idle"]_vars

C8_Witness ==
  /\ pc = "idle"
  /\ mark.stale > 0
  /\ written = <<encode(sending), encode(<<LF>>)>>
  /\ calls[Len(calls)].op = "send"

\* C9: the index k that expect returns for a match is the position, in the
\* caller's list, of a non-sentinel pattern that matches the matched text,
\* and no non-sentinel pattern before it matches that text; sentinels are
\* skipped but keep their position.
C9_IndexIsFirstMatchingPattern ==
  result.via = "match" =>
    /\ Len(regex) = Len(mark.patterns)
    /\ result.idx + 1 \in 1..Len(regex)
    /\ mark.patterns[result.idx + 1].kind # EOF
    /\ regex[result.idx + 1] = Re(mark.patterns[result.idx + 1].src)
    /\ re_match(mark.patterns[result.idx + 1].src, result.text)
    /\ \A j \in 1..result.idx :
         mark.patterns[j].kind # EOF => ~re_match(mark.patterns[j].src, result.text)

\* a match whose index counts the sentinel before it
C9_Witness ==
  /\ result.via = "match"
  /\ result.idx = 1
  /\ mark.patterns[1] = Sentinel

\* the line of the stream that starts at position p, terminator included
RECURSIVE LineEnd(_)
LineEnd(p) ==
  IF p >= Len(stream) THEN Len(stream)
  ELSE IF stream[p + 1] = LF THEN p + 1 ELSE LineEnd(p + 1)
LineAt(p) == SubSeq(stream, p + 1, LineEnd(p))
AtLineStart(p) == p = 0 \/ stream[p] = LF

\* C10 (as claimed): list order is the sole priority: when patterns i < j
\* both match a prefix of the same line, expect returns i for that line,
\* never j.
C10_LowerIndexWinsOnLine ==
  (result.via = "match" /\ AtLineStart(mark.match_pos)) =>
    \A i, j \in 1..Len(regex) :
      (/\ i < j
       /\ regex[i].kind # EOF
       /\ regex[j].kind # EOF
       /\ re_match(regex[i].src, LineAt(mark.match_pos))
       /\ re_match(regex[j].src, LineAt(mark.match_pos)))
      => result.idx # j - 1

\* the prefixes of the scanned text that next_line tests: up to the first
\* terminator character, or to the end of the buffer
ScanEnd ==
  IF ~HasLF(scanned) THEN Len(scanned)
  ELSE LET q == CHOOSE q \in 1..Len(scanned) :
                  scanned[q] = LF /\ \A k \in 1..(q - 1) : scanned[k] # LF
       IN IF q > 1 /\ scanned[q - 1] = CR THEN q - 1 ELSE q

\* C10 (amended): list order is the sole priority among the patterns that
\* match the text reported as matched.  That text is the longest prefix of
\* the buffered text, up to the line's first terminator character or to the
\* end of the buffer if the terminator is not read yet, that any
\* non-sentinel pattern matches; of two patterns i < j that both match it,
\* expect returns i and never j, whatever the lengths of the two matches.
C10_LowerIndexWinsOnMatchedText ==
  result.via = "match" =>
    /\ \A i, j \in Matching(result.text) : i < j => result.idx # j - 1
    /\ result.idx + 1 \in Matching(result.text)
    /\ IsPrefix(result.text, scanned)
    /\ Len(result.text) <= ScanEnd
    /\ \A m \in (Len(result.text) + 1)..ScanEnd :
         Matching(SubSeq(scanned, 1, m)) = {}

\* two patterns match the matched text and the first was returned
C10_Witness ==
  /\ result.via = "match"
  /\ Cardinality(Matching(result.text)) = 2
  /\ result.idx = 0

\* ------------------------------------------------------------- screen sink
\* TextBufferScreen driven on its own: the decoder dispatches operations to
\* it and the line iterator's side drains it.
DrawTexts == {<<"a">>, <<"b", "a">>}
\* the modes of erase_in_display: 0 and 1 erase a part, 2 and 3 the display
EraseModes == 0..3
Op(name, text, how) == [op |-> name, text |-> text, how |-> how]
\* operations dispatched so far, over all drains
RECURSIVE Dispatched(_)
Dispatched(k) == IF k = 0 THEN 0 ELSE Dispatched(k - 1) + Len(drains[k].ops)
Dispatch(name, text, how, buf) ==
  /\ Len(ops) + Dispatched(Len(drains)) < MaxOps
  /\ screen_buffer' = buf
  /\ ops' = Append(ops, Op(name, text, how))
  /\ UNCHANGED <<drains, title, main_vars, wait_vars, li_vars>>

Draw(text) == Dispatch("draw", text, 0, draw(screen_buffer, text))
CarriageReturn == Dispatch("carriage_return", <<>>, 0, carriage_return(screen_buffer))
Linefeed == Dispatch("linefeed", <<>>, 0, linefeed(screen_buffer))
Backspace == Dispatch("backspace", <<>>, 0, backspace(screen_buffer))
Tab == Dispatch("tab", <<>>, 0, tab(screen_buffer))
EraseInDisplay(how) ==
  Dispatch("erase_in_display", <<>>, how, erase_in_display(screen_buffer, how))
ReadBuffer ==
  LET rb == readbuffer(screen_buffer)
  IN /\ Len(drains) < MaxDrains
     /\ drains' = Append(drains, [val |-> rb.val, ops |-> ops])
     /\ screen_buffer' = rb.buffer
     /\ ops' = <<>>
     /\ UNCHANGED <<title, main_vars, wait_vars, li_vars>>

ScreenInit == Init /\ stream = <<>>
ScreenNext ==
  \/ \E text \in DrawTexts : Draw(text)
  \/ CarriageReturn
  \/ Linefeed
  \/ Backspace
  \/ Tab
  \/ \E how \in EraseModes : EraseInDisplay(how)
  \/ ReadBuffer
SpecScreen == ScreenInit /\ [][ScreenNext]_vars

\* what an operation adds to the buffer: drawn text, or its control character
Literal(o) ==
  CASE o.op = "draw" -> o.text
    [] o.op = "carriage_return" -> <<CR>>
    [] o.op = "linefeed" -> <<LF>>
    [] o.op = "backspace" -> <<BS>>
    [] o.op = "tab" -> <<TAB>>
    [] OTHER -> <<>>
RECURSIVE Concat(_)
Concat(os) == IF os = <<>> THEN <<>> ELSE Literal(Head(os)) \o Concat(Tail(os))
IsText(o) == o.op \in {"draw", "carriage_return", "linefeed", "backspace", "tab"}
OnlyText(os) == \A k \in 1..Len(os) : IsText(os[k])

\* C11: for any sequence of draw, carriage_return, linefeed, backspace and
\* tab, the next readbuffer returns the drawn texts and the literal CR, LF, BS
\* and TAB, concatenated in dispatch order: nothing lost, doubled or moved.
C11_DrainIsConcatenation ==
  /\ \A k \in 1..Len(drains) :
       OnlyText(drains[k].ops) => drains[k].val = Concat(drains[k].ops)
  /\ OnlyText(ops) => screen_buffer = Concat(ops)

\* a drain after a two-character draw, a backspace and a tab
C11_Witness ==
  \E k \in 1..Len(drains) :
    /\ Len(drains[k].ops) = 3
    /\ drains[k].ops[1] = Op("draw", <<"b", "a">>, 0)
    /\ drains[k].ops[2].op = "backspace"
    /\ drains[k].ops[3].op = "tab"
    /\ drains[k].val = <<"b", "a", BS, TAB>>

\* C12: readbuffer returns the whole buffer and leaves it empty: a drain that
\* follows a drain with no operation in between returns the empty string, and
\* what one drain returned is not in the buffer any more.
C12_DrainLeavesEmpty ==
  /\ \A k \in 2..Len(drains) : drains[k].ops = <<>> => drains[k].val = <<>>
  /\ (drains # <<>> /\ ops = <<>>) => screen_buffer = <<>>

\* content, then the empty string
C12_Witness ==
  /\ Len(drains) = 2
  /\ drains[1].val # <<>>
  /\ drains[2].ops = <<>>
  /\ drains[2].val = <<>>

\* the operations after the last full clear (all of them if there is none)
RECURSIVE SinceClear(_)
SinceClear(os) ==
  IF os = <<>> THEN <<>>
  ELSE LET o == os[Len(os)]
       IN IF o.op = "erase_in_display" /\ o.how >= 2 THEN <<>>
          ELSE Append(SinceClear(SubSeq(os, 1, Len(os) - 1)), o)

\* C13: erase_in_display with a full-clear mode empties the buffer, so what
\* was appended since the last drain is never drained; with mode 0 or 1 the
\* buffer is left as it is.
C13_EraseInDisplay ==
  /\ \A k \in 1..Len(drains) : drains[k].val = Concat(SinceClear(drains[k].ops))
  /\ screen_buffer = Concat(SinceClear(ops))
  /\ (ops # <<>> /\ ops[Len(ops)].op = "erase_in_display") =>
       IF ops[Len(ops)].how >= 2 THEN screen_buffer = <<>>
       ELSE screen_buffer = Concat(SinceClear(SubSeq(ops, 1, Len(ops) - 1)))

\* text, a full clear, then a drain that returns nothing
C13_Witness ==
  \E k \in 1..Len(drains) :
    /\ Len(drains[k].ops) = 2
    /\ drains[k].ops[1].op = "draw"
    /\ drains[k].ops[2] = Op("erase_in_display", <<>>, 2)
    /\ drains[k].val = <<>>

\* ---------------------------------------------------- empty is not the end
\* C14: a transient absence of data is never reported as end of stream: on
\* an open transport with nothing to read _read yields empty bytes and
\* next_line yields NO_LINE, a pass of expect that finds the transport so
\* leaves the call waiting, and an EOF token is produced only by a read that
\* found the transport closed with nothing left on it.
C14_EmptyIsNotEof ==
  [][/\ (pc = "expect" /\ buffer = <<>> /\ ~closed' /\ nread' = nread) =>
          /\ ~_read(<<>>, FALSE, ReadSize).eof
          /\ _read(<<>>, FALSE, ReadSize).data = <<>>
          /\ ~_read_pty(<<>>, FALSE).eof
          /\ next_line(buffer, _read_pty(<<>>, FALSE), regex).res = TokNoLine
          /\ line_history' = line_history
          /\ pc' = "expect"
          /\ result' = NoResult
     /\ (Len(line_history') > Len(line_history)
         /\ line_history'[Len(line_history')].type = EOF) =>
          /\ closed'
          /\ nread' = nread
          /\ nread = Len(stream)
          /\ buffer = <<>>]_vars

\* an expect that consumed a line is still waiting after a pass that found
\* the open transport empty, with more of the stream yet to come
C14_Witness ==
  /\ pc = "expect"
  /\ Len(line_history) > mark.call_hist
  /\ scanned = <<>>
  /\ buffer = <<>>
  /\ ~closed
  /\ nread < Len(stream)

\* --------------------------------------------------------- wait_exit_status
\* the end of RemotePtyShellExpect.wait_exit_status: -1 when the exit status
\* is not ready, chan.recv_exit_status() otherwise
remote_return(by_eof, ready, code) == IF ~ready THEN NotReady ELSE code

\* the process may exit (the exit status may arrive) at any moment; it does
\* not come back
AliveNext == IF alive THEN {TRUE, FALSE} ELSE {FALSE}
\* what the remote _read_pty_raw finds at the second test of its loop's
\* condition, which it makes after a read that gave bytes: the exit status
\* may have become ready meanwhile
AliveLater(a, wire) == IF a /\ wire # <<>> THEN {TRUE, FALSE} ELSE {a}

\* wait_exit_status(echo=e)
wait_exit_status_enter(e) ==
  /\ pc = "idle"
  /\ wpc = "none"
  /\ wpc' = "test"
  /\ wmark' = [buffer |-> buffer, nread |-> nread, by_eof |-> FALSE, echo |-> e]
  /\ UNCHANGED <<main_vars, sink_vars, li_vars, variant, alive, exitcode, exitstatus,
                 transport_closed, printed, ret>>

WaitCall == wait_exit_status_enter(TRUE)

\* exit_status_ready(), called on its own between two calls.  Local: not
\* ptyproc.isalive(), which notes the exit status of a process it finds to
\* have exited.  Remote: chan.exit_status_ready(), which changes nothing.
ExitStatusReady ==
  /\ pc = "idle"
  /\ wpc = "none"
  /\ \E a \in AliveNext :
       /\ alive' = a
       /\ exitstatus' = IF variant = "local" /\ alive /\ ~a THEN exitcode
                        ELSE exitstatus
  /\ UNCHANGED <<main_vars, sink_vars, li_vars, variant, exitcode,
                 transport_closed, wpc, printed, ret, wmark>>

\* the loop's condition: ptyproc.isalive(), which notes the exit status of a
\* process it finds dead, or not chan.exit_status_ready()
WaitTest ==
  /\ wpc = "test"
  /\ \E a \in AliveNext :
       /\ alive' = a
       /\ wpc' = IF a THEN "read" ELSE "after"
       /\ exitstatus' = IF variant = "local" /\ alive /\ ~a THEN exitcode
                        ELSE exitstatus
  /\ UNCHANGED <<main_vars, sink_vars, li_vars, variant, exitcode, transport_closed,
                 printed, ret, wmark>>

\* the loop's body with what _read_pty_raw returned; bytes that do not
\* decode end wait_exit_status with UnicodeDecodeError
WaitBody(raw) ==
  /\ nread' = nread + Len(raw.data)
  /\ reads' = IF Len(raw.data) > 0 THEN Append(reads, Len(raw.data)) ELSE reads
  /\ printed' = IF ~raw.eof /\ Len(raw.data) > 0 /\ Decodable(raw.data)
                  THEN Append(printed, readbuffer(feed(<<>>, decode(raw.data))).val)
                  ELSE printed
  /\ wpc' = IF raw.eof THEN "after"
            ELSE IF ~Decodable(raw.data) THEN "raised"
            ELSE "test"
  /\ wmark' = [wmark EXCEPT !.by_eof = raw.eof]

WaitRead ==
  /\ wpc = "read"
  /\ \E avail \in Readable : \E gone \in Gone(avail) :
       /\ closed' = gone
       /\ IF variant = "local"
            THEN /\ WaitBody(_read_pty_raw(Wire(avail), gone))
                 /\ alive' = alive
            ELSE \E a \in AliveNext : \E a2 \in AliveLater(a, Wire(avail)) :
                   /\ WaitBody(Remote_read_pty_raw(Wire(avail), gone,
                                                   <<~a, ~a2>>))
                   /\ alive' = a2
  /\ UNCHANGED <<stream, buffer, current_output_lines, line_history, written,
                 pc, regex, sending, result, calls, tok_pos, mark, scanned,
                 sink_vars, li_vars, variant, exitcode, exitstatus,
                 transport_closed, ret, echo, echoed>>

\* after the loop.  Local: ptyproc.close() unless closed, which ends a process
\* that still runs (it may also have just exited by itself), and
\* ptyproc.exitstatus is returned.  Remote: -1 or chan.recv_exit_status().
WaitFinish ==
  /\ wpc = "after"
  /\ wpc' = "returned"
  /\ IF variant = "local" /\ transport_closed
       THEN /\ ret' = exitstatus
            /\ UNCHANGED <<transport_closed, alive, exitstatus>>
     ELSE IF variant = "local"
       THEN /\ transport_closed' = TRUE
            /\ alive' = FALSE
            /\ \E st \in (IF alive THEN {None, exitcode} ELSE {exitstatus}) :
                 exitstatus' = st /\ ret' = st
       ELSE /\ \E a \in AliveNext :
                 /\ alive' = a
                 /\ ret' = remote_return(wmark.by_eof, ~a, exitcode)
            /\ UNCHANGED <<transport_closed, exitstatus>>
  /\ UNCHANGED <<main_vars, sink_vars, li_vars, variant, exitcode, printed, wmark>>

\* a session of the local variant may run one expect before it waits for the
\* exit, and send after the wait has returned; a remote session waits at once
WaitInit == InitSession /\ \E v \in Variants : \E code \in ExitCodes(v) : InitWait(v, code)
WaitNext ==
  \/ \E patterns \in PatternLists :
       variant = "local" /\ wpc = "none" /\ calls = <<>> /\ ExpectCall(patterns)
  \/ (wpc = "none" /\ ExpectLoop)
  \/ ExitStatusReady
  \/ WaitCall
  \/ WaitTest
  \/ WaitRead
  \/ WaitFinish
  \/ \E line \in SendLines :
       variant = "local" /\ wpc = "returned" /\ SendCall(line)
  \/ SendWrite
SpecWait == WaitInit /\ [][WaitNext]_vars
\* wait_exit_status runs on: its steps are taken as long as they can be
SpecWaitFair == SpecWait /\ WF_vars(WaitTest \/ WaitRead \/ WaitFinish)

\* C15: wait_exit_status, local or remote, closes the transport before it
\* returns and not before its loop has ended, and returns the transport's
\* exit code: ptyproc.exitstatus, or the channel's exit status.
C15_ClosesAndReturnsExitCode ==
  /\ transport_closed => wpc = "returned"
  /\ wpc = "returned" =>
       /\ transport_closed
       /\ ret = IF variant = "local" THEN exitstatus ELSE exitcode

\* C16: the remote wait_exit_status returns -1 exactly when its loop was left
\* on EOF and the exit status is still not ready when it returns; in every
\* other case it returns the channel's exit status, and the value returned
\* tells the two cases apart.
C16_RemoteFailureCode ==
  (variant = "remote" /\ wpc = "returned") =>
    /\ ret = NotReady <=> (wmark.by_eof /\ alive)
    /\ ret # NotReady => (ret = exitcode /\ ~alive)

\* what the remote wait_exit_status does keep of C16: which of its two
\* returns is taken.  It returns its own -1 exactly when the loop was left on
\* EOF with the exit status not ready, and what chan.recv_exit_status() gives
\* otherwise
RemoteReturnsByReadiness ==
  (variant = "remote" /\ wpc = "returned") =>
    /\ alive => (wmark.by_eof /\ ret = NotReady)
    /\ ~alive => ret = exitcode

\* the loop was left on EOF with no exit status ready: the failure code
FailureCodeReturned ==
  /\ variant = "remote"
  /\ wpc = "returned"
  /\ closed
  /\ wmark.by_eof
  /\ alive
  /\ ret = NotReady

\* the exit status was ready and chan.recv_exit_status() gave -1: the caller
\* receives the value of the failure code
StatusIsFailureCode ==
  /\ variant = "remote"
  /\ wpc = "returned"
  /\ ~alive
  /\ exitcode = NotReady
  /\ ret = NotReady

\* C17: wait_exit_status never blocks forever: whatever the transport does,
\* also when a remote channel stays open and idle and its exit status never
\* arrives, a call of wait_exit_status returns.
C17_WaitReturns == (wpc = "test") ~> (wpc = "returned")

\* C18: wait_exit_status drains all remaining output: what was held in the
\* line iterator's buffer at the call and everything the transport delivers
\* after it has been passed to printfn, in stream order and once, when
\* wait_exit_status returns.
C18_DrainsAllOutput ==
  wpc = "returned" =>
    Join(printed) = wmark.buffer \o SubSeq(stream, wmark.nread + 1, Len(stream))

\* what wait_exit_status does keep of C18: what it printed is, in order and
\* once, the output it read itself
WaitPrintsWhatItRead ==
  wpc # "none" => Join(printed) = SubSeq(stream, wmark.nread + 1, nread)

\* ------------------------------------------------------------ decode faults
\* Sessions of the local variant on output that is not all ASCII: the peer
\* produces bytes of which some chunks are not valid UTF-8, because a byte is
\* malformed or because a read ends inside a character.
Bytes == {"a", LF, HI, LO}
ByteStreams == UNION {[1..k -> Bytes] : k \in 0..MaxLen}
DecodePatterns == <<Re(<<"a", Dot>>), Sentinel>>
DecodeInit == InitSessionOn(ByteStreams) /\ InitWait("local", 0)
DecodeNext ==
  \/ (wpc = "none" /\ ExpectCall(DecodePatterns))
  \/ (wpc = "none" /\ ExpectLoop)
  \/ \E line \in SendLines : (wpc = "none" /\ SendCall(line))
  \/ SendWrite
  \/ SendWriteLf
  \/ WaitCall
  \/ WaitTest
  \/ WaitRead
  \/ WaitFinish
SpecDecode == DecodeInit /\ [][DecodeNext]_vars

\* C19: a decode fault never aborts the session: when a chunk read from the
\* transport holds malformed bytes or ends inside a multi-byte character,
\* expect, send and wait_exit_status do not fail because of it.
C19_DecodeFaultTolerated ==
  /\ result # RaisedDecode
  /\ \A n \in 1..Len(calls) : calls[n].kind # RaisedDecode.kind
  /\ wpc # "raised"

\* ------------------------------------------------- line_history (SpecDecode)
\* the token that next_line returns in the step being taken, a pass of
\* expect_match's loop: the step shows what was read (the bytes taken off the
\* transport and whether the peer had gone)
TokenOfStep ==
  next_line(buffer, _read_pty(SubSeq(stream, nread + 1, nread'), closed'),
            regex).res
\* the step is a pass of expect_match's loop in which next_line returns
PassReturns == pc = "expect" /\ result' # RaisedDecode

\* C22 (as claimed): line_history is append-only across send, expect and
\* wait_exit_status, and every token that next_line returns to expect is
\* appended to it.
C22_HistoryHoldsEveryToken ==
  [][/\ IsPrefix(line_history, line_history')
     /\ PassReturns => line_history' = Append(line_history, TokenOfStep)]_vars

\* C22 (amended): line_history is append-only across send, expect and
\* wait_exit_status: no step changes, removes or reorders an entry.  Every
\* token that next_line returns to expect is appended as it is returned,
\* except NO_LINE, which is never recorded; nothing but expect appends.
C22_HistoryAppendOnly ==
  [][/\ IsPrefix(line_history, line_history')
     /\ PassReturns =>
          line_history' = IF TokenOfStep.type = NO_LINE THEN line_history
                          ELSE Append(line_history, TokenOfStep)
     /\ pc # "expect" => line_history' = line_history]_vars

\* a session that has expected, sent and waited, with a line and the end of
\* the stream in its history
C22_Witness ==
  /\ wpc = "returned"
  /\ mark.sent
  /\ Len(line_history) = 2
  /\ line_history[1].type = "tuple"
  /\ line_history[2] = TokEOF

\* ------------------------------------------------- string patterns (Spec)
\* the text begins with the string, character for character
IsLiteralPrefix(src, text) ==
  /\ Len(src) <= Len(text)
  /\ \A k \in 1..Len(src) : src[k] = text[k]

\* expect has returned the index of an entry the caller passed as a string
MatchedString ==
  /\ result.via = "match"
  /\ result.idx + 1 \in 1..Len(mark.patterns)
  /\ mark.patterns[result.idx + 1].kind = "str"

\* C20 (as claimed): a string entry is an exact-prefix matcher of literal
\* text: the text that expect matched against it begins with the string
\* character for character, no character of the string having a
\* regular-expression meaning.
C20_StringIsLiteralPrefix ==
  MatchedString =>
    IsLiteralPrefix(mark.patterns[result.idx + 1].src, result.text)

\* C20 (amended): expect_match passes every string entry to re.compile, in
\* place and unescaped, so a string is the regular expression it spells: the
\* compiled list holds, at the position of each string entry, the expression
\* with the string as its source, and the text that expect matched against a
\* string entry is matched at its start by that expression ("." standing for
\* any character except a newline).  The match is literal only when the
\* string has no metacharacter.
C20_StringIsRegularExpression ==
  /\ pc = "expect" =>
        /\ Len(regex) = Len(mark.patterns)
        /\ \A i \in 1..Len(regex) :
             mark.patterns[i].kind = "str" =>
               regex[i] = Re(mark.patterns[i].src)
  /\ MatchedString =>
        /\ regex[result.idx + 1] = Re(mark.patterns[result.idx + 1].src)
        /\ re_match(mark.patterns[result.idx + 1].src, result.text)
        /\ (Dot \notin {mark.patterns[result.idx + 1].src[k] :
                          k \in 1..Len(mark.patterns[result.idx + 1].src)}
             => IsLiteralPrefix(mark.patterns[result.idx + 1].src, result.text))

\* the string "." has matched a text that begins with "a"
C20_Witness ==
  /\ MatchedString
  /\ mark.patterns[result.idx + 1] = Str(<<Dot>>)
  /\ result.text # <<>>
  /\ result.text[1] = "a"
  /\ ~IsLiteralPrefix(<<Dot>>, result.text)

\* ------------------------------------------------------------- echo (expect)
\* expect_match called with either value of echo
EchoNext ==
  \/ \E patterns \in PatternLists : \E e \in BOOLEAN :
       expect_match_enter(patterns, e)
  \/ ExpectLoop
  \/ \E line \in SendLines : SendCall(line)
  \/ SendWrite
  \/ SendWriteLf
SpecEcho == Init /\ [][EchoNext]_vars

\* an expect is running, or has ended and nothing was called since
InExpect ==
  \/ pc = "expect"
  \/ pc = "idle" /\ calls # <<>> /\ calls[Len(calls)].op = "expect"

\* the positions in line_history of the lines (tuples) the running expect
\* was given
CallTuples ==
  {h \in (mark.call_hist + 1)..Len(line_history) : line_history[h].type = "tuple"}

\* the text field of those tokens, in order
RECURSIVE TupleLines(_)
TupleLines(h) ==
  IF h > Len(line_history) THEN <<>>
  ELSE IF line_history[h].type = "tuple"
    THEN <<line_history[h].line>> \o TupleLines(h + 1)
  ELSE TupleLines(h + 1)

\* C21: with echo set, printfn is called once for every line the expect
\* consumed, in stream order and with the raw text of the line, so that the
\* concatenation of its arguments is the stream text the call consumed; with
\* echo unset it is not called; it is not called for end of stream.
C21_EchoIsConsumedText ==
  InExpect =>
    IF echo
      THEN /\ Len(echoed) = Cardinality(CallTuples)
           /\ Join(echoed) = SubSeq(stream, mark.call_pos + 1, BufPos)
      ELSE echoed = <<>>

\* what does hold: printfn is called once per line, in order, with the text
\* field of the line's token, which for a matched line is the matched prefix
EchoIsTokenText ==
  InExpect => echoed = IF echo THEN TupleLines(mark.call_hist + 1) ELSE <<>>

\* ------------------------------------------------ the line iterator, directly
\* The line iterator driven through its two methods, as the repository's test
\* of exhaust_buffer drives it, on a transport that delivers the stream in any
\* split.  Each call is logged: the buffer and stream position it found,
\* whether it pulled (_read_pty), what the pull gave (n bytes, or eof) and
\* whether the peer was gone by then, what it returned and the buffer it left.
\* next_line is called without patterns (match_re=None) or with a compiled
\* list
LineLists == {<<>>, Compile(<<Sentinel, Str(<<"a", "a">>)>>)}

LiEntry(op, match_re, read, rd, gone, returned, tok, after) ==
  [op |-> op, match_re |-> match_re, buffer |-> buffer, pos |-> nread,
   read |-> read, n |-> IF read THEN rd.n ELSE 0, eof |-> read /\ rd.eof,
   gone |-> IF read THEN gone ELSE closed, ret |-> returned, tok |-> tok,
   after |-> after]

\* self.line_itr.exhaust_buffer()
LiExhaust ==
  /\ Len(li_log) < MaxLiCalls
  /\ \E avail \in Readable : \E gone \in Gone(avail) :
       LET rd == _read_pty(Wire(avail), gone)
           ex == exhaust_buffer(buffer, rd)
       IN /\ nread' = nread + rd.n
          /\ closed' = gone
          /\ reads' = IF rd.n > 0 THEN Append(reads, rd.n) ELSE reads
          /\ buffer' = ex.buffer
          /\ li_log' = Append(li_log, LiEntry("exhaust_buffer", <<>>, TRUE, rd,
                                              gone, ex.ret, TokNoLine, ex.buffer))
  /\ UNCHANGED <<stream, current_output_lines, line_history, written, pc,
                 regex, sending, result, calls, tok_pos, mark, scanned, echo,
                 echoed, sink_vars, wait_vars, raw_log, rr_log, wr_log, aux_vars>>

\* self.line_itr.next_line(match_re)
LiNextLine(match_re) ==
  /\ Len(li_log) < MaxLiCalls
  /\ \E avail \in Readable : \E gone \in Gone(avail) :
       LET rd == _read_pty(Wire(avail), gone)
           nl == next_line(buffer, rd, match_re)
       IN /\ nl.read \/ (avail = 0 /\ gone = closed)
          /\ nread' = IF nl.read THEN nread + rd.n ELSE nread
          /\ closed' = IF nl.read THEN gone ELSE closed
          /\ reads' = IF nl.read /\ rd.n > 0 THEN Append(reads, rd.n) ELSE reads
          /\ buffer' = nl.buffer
          /\ mark' = [mark EXCEPT !.buf_end = IF nl.read THEN nread + rd.n
                                              ELSE mark.buf_end]
          /\ li_log' = Append(li_log, LiEntry("next_line", match_re, nl.read, rd,
                                              gone, EOFResult, nl.res, nl.buffer))
  /\ UNCHANGED <<stream, current_output_lines, line_history, written, pc,
                 regex, sending, result, calls, tok_pos, scanned, echo,
                 echoed, sink_vars, wait_vars, raw_log, rr_log, wr_log, aux_vars>>

LinesNext ==
  \/ LiExhaust
  \/ \E match_re \in LineLists : LiNextLine(match_re)
SpecLines == Init /\ [][LinesNext]_vars

\* the calls of each method
Exhausts == {k \in 1..Len(li_log) : li_log[k].op = "exhaust_buffer"}
NextLines == {k \in 1..Len(li_log) : li_log[k].op = "next_line"}
\* the stream text from position a (0-based) up to position b
Text(a, b) == SubSeq(stream, a + 1, b)

\* C23: exhaust_buffer returns the buffered text followed by the text of one
\* fresh pull and leaves the buffer empty; when the pull reports end of
\* stream it returns the buffered text if there is any and EOF otherwise.  On
\* a stream that has closed holding the text t (buffered or not yet read),
\* the first call returns t and every later call returns EOF.
C23_ExhaustBuffer ==
  \A k \in Exhausts :
    LET c == li_log[k]
        held == Text(c.pos - Len(c.buffer), c.pos)
        pulled == Text(c.pos, c.pos + c.n)
        t == Text(c.pos - Len(c.buffer), Len(stream))
    IN /\ c.read
       /\ c.buffer = held
       /\ c.after = <<>>
       /\ c.ret = IF ~c.eof THEN Data(held \o pulled)
                  ELSE IF held # <<>> THEN Data(held)
                  ELSE EOFResult
       /\ (c.gone /\ t # <<>>) =>
            /\ c.ret = Data(t)
            /\ \A l \in Exhausts : l > k => li_log[l].ret = EOFResult

\* a stream that closed with one part of its text buffered and the other not
\* yet read: the first exhaust_buffer returned all of it, the second EOF
C23_Witness ==
  /\ Len(li_log) = 3
  /\ li_log[1].op = "next_line"
  /\ li_log[2].op = "exhaust_buffer"
  /\ li_log[2].buffer # <<>>
  /\ li_log[2].n > 0
  /\ li_log[2].gone
  /\ li_log[2].ret = Data(Text(li_log[2].pos - Len(li_log[2].buffer), Len(stream)))
  /\ li_log[3].op = "exhaust_buffer"
  /\ li_log[3].ret = EOFResult

\* the text a call of next_line had in its buffer when it scanned
Scanned(c) == c.buffer \o Text(c.pos, c.pos + c.n)
\* no pattern of the list matches a prefix of the text
NoPrefixMatches(match_re, text) ==
  \A i \in 1..Len(text) : first_match(match_re, SubSeq(text, 1, i)).j = NoIndex

\* C24: unterminated text is retained, not emitted: a next_line that scans
\* to the end of its buffer and finds neither a line terminator nor a match,
\* while the stream is alive, returns NO_LINE and keeps the whole text
\* buffered; an unmatched line without a line terminator is produced only as
\* the final flush at end of stream.
C24_UnterminatedTextRetained ==
  \A k \in NextLines :
    LET c == li_log[k]
    IN /\ (/\ Scanned(c) # <<>>
           /\ ~HasLF(Scanned(c))
           /\ NoPrefixMatches(c.match_re, Scanned(c))
           /\ ~c.gone)
          => (c.tok = TokNoLine /\ c.after = Scanned(c))
       /\ (c.tok.type = "tuple" /\ ~c.tok.match /\ ~HasLF(c.tok.line))
          => c.gone

\* what next_line does with such text: it is returned at once as an unmatched
\* line and dropped from the buffer, whether the stream is alive or not
UnterminatedTextEmitted ==
  \A k \in NextLines :
    LET c == li_log[k]
    IN (/\ Scanned(c) # <<>>
        /\ ~HasLF(Scanned(c))
        /\ NoPrefixMatches(c.match_re, Scanned(c)))
       => (c.tok = Tuple(NoIndex, Scanned(c), FALSE) /\ c.after = <<>>)

\* the lengths of the prefixes of the text that a pattern of the list matches
MatchingPrefixes(match_re, text) ==
  {i \in 1..Len(text) : first_match(match_re, SubSeq(text, 1, i)).j # NoIndex}
Least(S) == CHOOSE i \in S : \A h \in S : i <= h
Greatest(S) == CHOOSE i \in S : \A h \in S : i >= h
\* the length of the first line of the text, terminator included; of the
\* whole text when it holds no terminator
FirstLine(text) ==
  IF HasLF(text) THEN Least({n \in 1..Len(text) : text[n] = LF}) ELSE Len(text)
\* the longest prefix of that line that the scan tests: the "\n" of a "\r\n"
\* is stepped over untested
Tested(text) ==
  LET e == FirstLine(text)
  IN IF text[e] = LF /\ e >= 2 /\ text[e - 1] = CR THEN e - 1 ELSE e

\* C25 (as claimed): a match ends the scan at the match point: next_line
\* returns the shortest matching prefix as the matched text, and everything
\* after the match point, a line terminator that follows it included, stays
\* in the buffer.
C25_MatchEndsScan ==
  \A k \in NextLines :
    LET c == li_log[k]
        text == Scanned(c)
        m == Least(MatchingPrefixes(c.match_re, text))
    IN c.tok.match =>
         /\ c.tok.line = SubSeq(text, 1, m)
         /\ c.after = SubSeq(text, m + 1, Len(text))

\* C25 (amended): a match does not end the scan.  next_line scans on to the
\* first line terminator, or to the end of the buffer when it holds none, and
\* tests every prefix on the way; it consumes that whole line, terminator
\* included, and only what follows the line stays in the buffer.  When some
\* tested prefix matched, the token is a match whose text is the longest
\* tested prefix that matched, with the index of the first pattern matching
\* it; otherwise it is the line, unmatched.
C25_MatchScansToLineEnd ==
  \A k \in NextLines :
    LET c == li_log[k]
        text == Scanned(c)
        e == FirstLine(text)
        M == MatchingPrefixes(c.match_re, SubSeq(text, 1, Tested(text)))
    IN text # <<>> =>
         /\ c.after = SubSeq(text, e + 1, Len(text))
         /\ c.tok = IF M = {}
                      THEN Tuple(NoIndex, SubSeq(text, 1, e), FALSE)
                      ELSE Tuple(first_match(c.match_re,
                                             SubSeq(text, 1, Greatest(M))).j,
                                 SubSeq(text, 1, Greatest(M)), TRUE)

\* "aa" matched two characters into the line "aa\n": the token holds the
\* whole line and the buffer is empty
C25_Witness ==
  \E k \in NextLines :
    /\ Scanned(li_log[k]) = <<"a", "a", LF>>
    /\ li_log[k].tok = Tuple(1, <<"a", "a", LF>>, TRUE)
    /\ Least(MatchingPrefixes(li_log[k].match_re, Scanned(li_log[k]))) = 2
    /\ li_log[k].after = <<>>

\* C28: next_line pulls from the transport only when its buffer is empty on
\* entry, and then once; it does not wait or retry: when the pull yields no
\* text it returns NO_LINE at once (EOF if the pull reports end of stream),
\* and when the buffer is not empty on entry it reads nothing and returns a
\* line taken from the buffered text alone.
C28_PullOnlyOnEmptyBuffer ==
  \A k \in NextLines :
    LET c == li_log[k]
        pulled == Text(c.pos, c.pos + c.n)
    IN /\ c.read <=> c.buffer = <<>>
       /\ (c.read /\ ~c.eof /\ pulled = <<>>) => (c.tok = TokNoLine /\ c.after = <<>>)
       /\ (c.read /\ c.eof) => (c.tok = TokEOF /\ c.n = 0)
       /\ (c.read /\ pulled # <<>>) => (c.tok.type = "tuple" /\ Scanned(c) = pulled)
       /\ ~c.read =>
            /\ c.n = 0
            /\ c.tok.type = "tuple"
            /\ c.buffer = c.tok.line \o c.after \/ c.tok.match
            /\ IF k < Len(li_log) THEN li_log[k + 1].pos = c.pos
               ELSE nread = c.pos

\* both cases in one session: a call that found text buffered and read
\* nothing although bytes were waiting, and a call that pulled once, got
\* nothing and returned NO_LINE
C28_Witness ==
  \E k, l \in NextLines :
    /\ li_log[k].buffer # <<>>
    /\ ~li_log[k].read
    /\ li_log[k].pos < Len(stream)
    /\ li_log[l].read
    /\ li_log[l].n = 0
    /\ li_log[l].tok = TokNoLine

\* ------------------------------------------------- how an expect ends (Spec)
\* the token the step's pass of expect_match's loop was given, read off the
\* history: NO_LINE is the one token that leaves no entry
StepToken ==
  IF line_history' = line_history THEN TokNoLine
  ELSE line_history'[Len(line_history')]

\* C26: an expect ends only on a match, which it returns, or on end of
\* stream, where it returns the sentinel's index if the sentinel was
\* supplied and fails otherwise; end of stream is met only on a stream that
\* has closed and been read to its end.  NO_LINE and unmatched lines never
\* end the call and there is no timeout: while the stream is open and gives
\* no matching line, every pass leaves the call polling.
C26_EndsOnlyOnMatchOrEof ==
  [][pc = "expect" =>
       IF StepToken.type = "tuple" /\ StepToken.match
         THEN /\ pc' = "idle"
              /\ result' = Returned(StepToken.j, StepToken.line, "match")
       ELSE IF StepToken.type = EOF
         THEN /\ pc' = "idle"
              /\ closed' /\ nread' = Len(stream) /\ buffer' = <<>>
              /\ result' = IF HasEOF(regex)
                             THEN Returned(IndexOfEOF(regex), <<>>, EOF)
                             ELSE Raised
       ELSE /\ pc' = "expect"
            /\ result' = NoResult]_vars

\* an expect that has been given an unmatched line and has read all there
\* is of an open stream: it is still polling
C26_Witness ==
  /\ pc = "expect"
  /\ ~closed
  /\ nread = Len(stream)
  /\ buffer = <<>>
  /\ Len(line_history) > mark.call_hist
  /\ ~LastTok.match
  /\ result = NoResult

\* ------------------------------------------------ expect answers (liveness)
\* expect_match's loop runs on (one thread, while True): a pass is taken if
\* it stays possible, with what the stream then offers.  Nothing obliges the
\* peer to write more or to close: the passes that fairness demands are those
\* in which the peer does not go.
ExpectProgress ==
  /\ pc = "expect"
  /\ IF buffer = <<>>
       THEN \E avail \in Readable : \E gone \in Gone(avail) \cap {closed} :
              ExpectPass(avail, gone)
       ELSE ExpectPass(0, closed)
\* a session that makes one call, expect([EOF, "aa"]), on output made of "a"
\* and newlines
AnswerPatterns == <<Sentinel, Str(<<"a", "a">>)>>
AnswerStreams == UNION {[1..k -> {"a", LF}] : k \in 0..MaxLen}
AnswerInit == InitSessionOn(AnswerStreams) /\ InitWait("local", 0)
AnswerNext ==
  \/ (calls = <<>> /\ ExpectCall(AnswerPatterns))
  \/ ExpectLoop
SpecExpectFair == AnswerInit /\ [][AnswerNext]_vars /\ WF_vars(ExpectProgress)

\* the output that follows the point where the running expect was called
\* holds a terminated line that a pattern of its list matches
MatchingLineAhead ==
  \E q \in mark.call_pos..(Len(stream) - 1) :
    /\ q = mark.call_pos \/ AtLineStart(q)
    /\ stream[LineEnd(q)] = LF
    /\ \E j \in 1..Len(regex) :
         regex[j].kind # EOF /\ re_match(regex[j].src, LineAt(q))

\* C27: expect answers: if the stream delivers a line that one of the
\* supplied patterns matches, or closes, the expect terminates, however the
\* stream's characters are split across reads.
C27_ExpectAnswers ==
  (pc = "expect" /\ (MatchingLineAhead \/ closed)) ~> (pc = "idle")

\* what expect does keep of C27: on a stream that has closed it terminates
ExpectEndsOnClosedStream == (pc = "expect" /\ closed) ~> (pc = "idle")

\* the state the refutation ends in: the matching line has been read and
\* consumed piecewise as unmatched lines, and the expect polls an open,
\* silent stream
PassedOver ==
  /\ pc = "expect"
  /\ MatchingLineAhead
  /\ nread = Len(stream)
  /\ buffer = <<>>
  /\ ~closed
  /\ Len(line_history) > mark.call_hist


\* ------------------------------------------- the transport, driven directly
\* _read_pty_raw is called on its own, on either variant, and every call is
\* noted: where the reader stood (pos), how many bytes were waiting on the
\* transport (avail), whether the peer had gone, whether the remote exit
\* status was ready, whether the local descriptor had been closed, and what
\* the call returned.

\* PtyShellExpect._read_pty_raw on a descriptor that may have been closed:
\* with ptyproc.fd < 0, _read returns EOF before it looks at the descriptor,
\* as it does on an open one whose peer is gone with nothing left
_read_pty_raw_fd(fd_closed, wire, peer_closed) ==
  IF fd_closed THEN _read_pty_raw(<<>>, TRUE)
  ELSE _read_pty_raw(wire, peer_closed)

RawEntry(raw, avail, gone, ready) ==
  [variant |-> variant, pos |-> nread, avail |-> avail, gone |-> gone,
   ready |-> ready, fd_closed |-> transport_closed, eof |-> raw.eof,
   data |-> raw.data]

\* self.ptyproc.close(): the descriptor is closed and ptyproc.fd is -1; a
\* process that has exited is reaped and its exit status noted, one that
\* still runs is terminated, which leaves ptyproc.exitstatus None
TransportClose ==
  /\ variant = "local"
  /\ pc = "idle"
  /\ ~transport_closed
  /\ transport_closed' = TRUE
  /\ alive' = FALSE
  /\ \E st \in (IF alive THEN {None, exitcode} ELSE {exitstatus}) :
       exitstatus' = st
  /\ UNCHANGED <<main_vars, sink_vars, li_vars, variant, exitcode, wpc,
                 printed, ret, wmark>>

\* self._read_pty_raw().  A call that does not look at the transport (the
\* descriptor is closed, the remote exit status is ready) leaves what waits
\* there where it is.
RawRead ==
  /\ pc = "idle"
  /\ Len(raw_log) < MaxRawCalls
  /\ \E avail \in Readable :
     \E a \in (IF variant = "remote" THEN AliveNext ELSE {alive}) :
       LET looks == IF variant = "local" THEN ~transport_closed ELSE a
       IN \E gone \in (IF looks THEN Gone(avail) ELSE {closed}) :
          \E a2 \in (IF variant = "remote" THEN AliveLater(a, Wire(avail))
                      ELSE {a}) :
            LET raw == IF variant = "local"
                         THEN _read_pty_raw_fd(transport_closed, Wire(avail), gone)
                         ELSE Remote_read_pty_raw(Wire(avail), gone,
                                                  <<~a, ~a2>>)
            IN /\ nread' = nread + Len(raw.data)
               /\ closed' = gone
               /\ reads' = IF Len(raw.data) > 0 THEN Append(reads, Len(raw.data))
                           ELSE reads
               /\ alive' = a2
               /\ raw_log' = Append(raw_log, RawEntry(raw, avail, gone, ~a))
  /\ UNCHANGED <<stream, buffer, current_output_lines, line_history, written,
                 pc, regex, sending, result, calls, tok_pos, mark, scanned,
                 echo, echoed, sink_vars, li_log, rr_log, wr_log, aux_vars,
                 variant, exitcode,
                 exitstatus, transport_closed, wpc, printed, ret, wmark>>

\* expect_match's loop on the local variant, also on a closed descriptor
TransportExpectLoop ==
  /\ pc = "expect"
  /\ IF transport_closed THEN ExpectPass(0, TRUE) ELSE ExpectLoop

\* what the peer produces: lines of "a", the line ends being LF
TransportStreams == UNION {[1..k -> {"a", LF}] : k \in 0..MaxLen}
TransportInit ==
  /\ InitSessionOn(TransportStreams)
  /\ \E v \in Variants : \E code \in ExitCodes(v) : InitWait(v, code)
TransportNext ==
  \/ RawRead
  \/ TransportClose
  \/ \E patterns \in PatternLists :
       variant = "local" /\ calls = <<>> /\ ExpectCall(patterns)
  \/ TransportExpectLoop
SpecTransport == TransportInit /\ [][TransportNext]_vars

\* a local session that closes ptyproc itself at some idle moment: it sends
\* before and after the close, asks exit_status_ready, and waits for the
\* exit once the transport is closed
ClosedInit ==
  /\ InitSessionOn(TransportStreams)
  /\ \E code \in ExitCodes("local") : InitWait("local", code)
ClosedNext ==
  \/ (wpc = "none" /\ TransportClose)
  \/ ExitStatusReady
  \/ \E line \in SendLines : wpc \in {"none", "returned"} /\ SendCall(line)
  \/ SendWrite
  \/ SendWriteLf
  \/ (transport_closed /\ WaitCall)
  \/ WaitTest
  \/ WaitFinish
SpecClosed == ClosedInit /\ [][ClosedNext]_vars

\* what a closed ptyproc does to the calls made after it: a send ends with
\* ValueError and writes nothing, and the wait returns the exit status the
\* close left, None for a process the close terminated
AfterClose ==
  /\ \A k \in 1..Len(calls) :
       (calls[k].op = "send" /\ calls[k].kind = "ValueError") => transport_closed
  /\ \A k \in 1..Len(calls) :
       (calls[k].op = "send" /\ calls[k].kind = "none") =>
         Len(written) >= 2 * k
  /\ wpc = "returned" => (ret = exitstatus /\ ret \in {None, exitcode})
SentAfterClose ==
  /\ transport_closed
  /\ written = <<>>
  /\ calls # <<>>
  /\ calls[Len(calls)].kind = "ValueError"
WaitedAfterClose ==
  /\ wpc = "returned"
  /\ exitcode = 1
  /\ ret = None

\* C29: on either variant, a read of an open transport reports end of stream
\* only when the peer has closed or exited and no byte is left on the
\* transport: every byte the peer produced has been returned by the reads
\* before it, whenever the remote exit status became ready.
C29_EofOnlyAfterEveryByte ==
  \A k \in 1..Len(raw_log) :
    (raw_log[k].eof /\ ~raw_log[k].fd_closed) =>
      /\ raw_log[k].gone \/ raw_log[k].ready
      /\ raw_log[k].avail = 0

\* so it is on the local variant, and on the remote variant for the reads
\* made before the exit status is ready: end of stream is reported when the
\* peer has gone and the stream has been read to its end
EofOnlyAfterEveryByteUntilReady ==
  \A k \in 1..Len(raw_log) :
    (raw_log[k].eof /\ ~raw_log[k].fd_closed /\ ~raw_log[k].ready) =>
      /\ raw_log[k].gone
      /\ raw_log[k].avail = 0
      /\ raw_log[k].pos = Len(stream)

\* a remote read that found the exit status ready and bytes waiting
RemoteReadyWithBytes ==
  \E k \in 1..Len(raw_log) :
    /\ raw_log[k].variant = "remote"
    /\ raw_log[k].ready
    /\ raw_log[k].avail > 0
    /\ raw_log[k].eof


\* a fault of the local transport as a read meets it: the descriptor has been
\* closed (ptyproc.fd < 0), or os.read fails because the peer is gone and
\* nothing is left
FaultMet(e) == e.fd_closed \/ (e.gone /\ e.avail = 0)
LastRaw == raw_log[Len(raw_log)]

\* C30: on the local variant a transport fault surfaces as end of stream:
\* a read that meets a failing or closed descriptor returns EOF, and only
\* such a read does; a read that took bytes before the peer went returns
\* those bytes and the call after it returns EOF; an expect whose read meets
\* the fault returns the sentinel's index or raises ShellExpectEOF, and one
\* whose read took bytes first goes on with them.
C30_FaultIsEndOfStream ==
  [][/\ (raw_log' # raw_log /\ variant = "local") =>
          /\ LastRaw'.eof <=> FaultMet(LastRaw')
          /\ LastRaw'.eof => LastRaw'.data = <<>>
          /\ (~LastRaw'.fd_closed /\ LastRaw'.gone /\ LastRaw'.avail > 0) =>
               LastRaw'.data = SubSeq(stream, LastRaw'.pos + 1,
                                      LastRaw'.pos + LastRaw'.avail)
          /\ (raw_log # <<>> /\ LastRaw.gone) => LastRaw'.eof
     /\ (pc = "expect" /\ buffer = <<>>) =>
          /\ (transport_closed \/ (closed' /\ nread' = nread)) =>
               /\ pc' = "idle"
               /\ StepToken = TokEOF
               /\ result' = IF HasEOF(regex)
                              THEN Returned(IndexOfEOF(regex), <<>>, EOF)
                              ELSE Raised
          /\ (~transport_closed /\ closed' /\ nread' > nread) =>
               /\ StepToken.type = "tuple"
               /\ result'.via # EOF]_vars

\* a read returned the bytes it took before the peer went, the read after it
\* reported EOF, and the expect made then raised ShellExpectEOF
C30_Witness ==
  /\ variant = "local"
  /\ Len(raw_log) = 2
  /\ raw_log[1].gone /\ raw_log[1].avail > 0 /\ raw_log[1].data # <<>>
  /\ raw_log[2].eof
  /\ Len(calls) = 1
  /\ result = Raised


\* --------------------------------------------- the remote _read, directly
\* RemotePtyShellExpect._read(n) is called on its own with small n.  The
\* channel holds avail bytes before stdout.read(1) times out or, if the
\* channel is at its end (gone), returns b""; a channel at its end holds all
\* that is left of the stream.
ReadSizes == 0..(MaxLen + 1)
ChannelHolds == IF closed THEN {Len(stream) - nread} ELSE Readable

RemoteReadCall ==
  /\ variant = "remote"
  /\ Len(rr_log) < MaxRawCalls
  /\ \E n \in ReadSizes : \E avail \in ChannelHolds : \E gone \in Gone(avail) :
       LET r == Remote_read(Wire(avail), gone, n)
       IN /\ nread' = nread + Len(r.data)
          /\ closed' = gone
          /\ reads' = IF Len(r.data) > 0 THEN Append(reads, Len(r.data)) ELSE reads
          /\ rr_log' = Append(rr_log, [n |-> n, pos |-> nread, avail |-> avail,
                                       gone |-> gone, eof |-> r.eof,
                                       data |-> r.data])
  /\ UNCHANGED <<stream, buffer, current_output_lines, line_history, written,
                 pc, regex, sending, result, calls, tok_pos, mark, scanned,
                 echo, echoed, sink_vars, wait_vars, li_log, raw_log, wr_log,
                 aux_vars>>

RemoteReadInit == InitSession /\ InitWait("remote", 0)
RemoteReadNext == RemoteReadCall
SpecRemoteRead == RemoteReadInit /\ [][RemoteReadNext]_vars

Min(a, b) == IF a < b THEN a ELSE b

\* C31: the remote _read(n) returns at most n bytes, in channel order: the
\* bytes up to the first timeout or the end of the channel, or the first n
\* of them.  It returns EOF only when the call read no byte and met the end
\* of the channel; bytes followed by EOF or a timeout are returned; a
\* timeout at the first byte gives empty bytes.
C31_RemoteReadAtMostN ==
  \A k \in 1..Len(rr_log) :
    LET e == rr_log[k]
    IN /\ Len(e.data) <= e.n
       /\ e.data = SubSeq(stream, e.pos + 1, e.pos + Len(e.data))
       /\ e.eof <=> (e.n > 0 /\ e.avail = 0 /\ e.gone)
       /\ e.eof => e.data = <<>>
       /\ ~e.eof => Len(e.data) = Min(e.n, e.avail)
       /\ (e.avail = 0 /\ ~e.gone) => (~e.eof /\ e.data = <<>>)

\* a call that stopped at n with bytes left, and a call that returned the
\* bytes it read before the end of the channel
C31_Witness ==
  /\ Len(rr_log) = 2
  /\ rr_log[1].n = 1 /\ rr_log[1].avail = 2 /\ Len(rr_log[1].data) = 1
  /\ rr_log[2].gone /\ rr_log[2].n > rr_log[2].avail
  /\ rr_log[2].avail > 0 /\ ~rr_log[2].eof
  /\ Len(rr_log[2].data) = rr_log[2].avail


\* ------------------------------------------- the sink, every operation
\* TextBufferScreen.set_title
set_title(title_, text) == text
\* generic_cursor_control, bound to every name of cursor_functions, and
\* generic_fn, bound to every name of functions: pass
generic_cursor_control(screen_buffer_) == screen_buffer_
generic_fn(screen_buffer_) == screen_buffer_
\* TextBufferScreen.debug, which the decoder calls for a control sequence it
\* does not recognize: self.buffer.write("\r\n")
debug(screen_buffer_) == screen_buffer_ \o <<CR, LF>>

\* names of cursor_functions and of functions: cursor positioning, scroll
\* region, character set, rendition, erase in line
CursorFunctions == {"cursor_position", "cursor_up"}
Functions == {"set_margins", "define_charset", "select_graphic_rendition",
              "erase_in_line"}
Titles == {<<"a">>}

SetTitle(text) ==
  /\ Len(ops) + Dispatched(Len(drains)) < MaxOps
  /\ title' = set_title(title, text)
  /\ ops' = Append(ops, Op("set_title", text, 0))
  /\ UNCHANGED <<screen_buffer, drains, main_vars, wait_vars, li_vars>>
CursorControl(fn) == Dispatch(fn, <<>>, 0, generic_cursor_control(screen_buffer))
GenericFn(fn) == Dispatch(fn, <<>>, 0, generic_fn(screen_buffer))
Debug == Dispatch("debug", <<>>, 0, debug(screen_buffer))

SinkNext ==
  \/ ScreenNext
  \/ \E text \in Titles : SetTitle(text)
  \/ \E fn \in CursorFunctions : CursorControl(fn)
  \/ \E fn \in Functions : GenericFn(fn)
  \/ Debug
SpecSink == ScreenInit /\ [][SinkNext]_vars

\* the operation dispatched by this step, if it is one
IsDispatch == Len(ops') = Len(ops) + 1
Dispatching == ops'[Len(ops')]
ChangesBuffer(o) == IsText(o) \/ (o.op = "erase_in_display" /\ o.how >= 2)

\* C32: only draw, carriage_return, linefeed, backspace, tab and a full
\* clear change the sink's buffer: every other operation dispatched to the
\* sink, debug included, leaves the buffer as it was.
C32_OnlyTextOperationsChangeBuffer ==
  [][(IsDispatch /\ ~ChangesBuffer(Dispatching)) =>
       screen_buffer' = screen_buffer]_vars

\* so it is for every operation but debug, and the title is changed by
\* set_title alone
OtherOperationsLeaveBuffer ==
  [][IsDispatch =>
       /\ (~ChangesBuffer(Dispatching) /\ Dispatching.op # "debug") =>
            screen_buffer' = screen_buffer
       /\ Dispatching.op # "set_title" => title' = title]_vars

\* a drain that returned a line break no text operation had written
DebugBrokeLine ==
  \E k \in 1..Len(drains) :
    /\ drains[k].val = <<"a", CR, LF, "a">>
    /\ \A j \in 1..Len(drains[k].ops) :
         drains[k].ops[j].op \in {"draw", "debug"}


\* ------------------------------------------------ wait_exit_status(echo)
\* wait_exit_status is called with either value of echo, as Rsync.run does
WaitEchoNext ==
  \/ \E e \in BOOLEAN : wait_exit_status_enter(e)
  \/ WaitTest
  \/ WaitRead
  \/ WaitFinish
SpecWaitEcho == WaitInit /\ [][WaitEchoNext]_vars

\* C33: wait_exit_status called with echo=False passes nothing to the print
\* function, on the local and on the remote variant.
C33_EchoOffPrintsNothing ==
  (wpc # "none" /\ ~wmark.echo) => printed = <<>>

\* with echo=False too the print function gets what was read, on both
\* variants
EchoOffPrintsWhatItRead ==
  (wpc # "none" /\ ~wmark.echo) =>
    Join(printed) = SubSeq(stream, wmark.nread + 1, nread)

\* a remote wait with echo=False that has returned after printing
EchoOffPrinted ==
  /\ wpc = "returned"
  /\ ~wmark.echo
  /\ printed # <<>>
  /\ variant = "remote"


\* ------------------------------------------------------- send, remote
\* _read_pty as RemotePtyShellExpect runs it
Remote_read_pty(wire, chan_eof, readys) ==
  LET buf == Remote_read_pty_raw(wire, chan_eof, readys)
  IN IF buf.eof THEN [eof |-> TRUE, text |-> <<>>, n |-> 0, err |-> FALSE]
     ELSE IF Len(buf.data) = 0
       THEN [eof |-> FALSE, text |-> <<>>, n |-> 0, err |-> FALSE]
     ELSE IF ~Decodable(buf.data)
       THEN [eof |-> FALSE, text |-> <<>>, n |-> Len(buf.data), err |-> TRUE]
     ELSE [eof |-> FALSE,
           text |-> readbuffer(feed(<<>>, decode(buf.data))).val,
           n |-> Len(buf.data), err |-> FALSE]

\* how self.stdin.write(data) ends: the data is written, the write times out
\* (socket.timeout) with nothing written, or it fails otherwise
WriteOutcomes == {"ok", "timeout", "OSError"}

\* RemotePtyShellExpect._write(data): socket.timeout is caught and dropped,
\* any other exception leaves _write
Remote_write(outcome) == IF outcome = "OSError" THEN "raised" ELSE "returned"

\* send up to its first write, on the remote variant (the streams of this
\* specification decode)
RemoteSendCall(line) ==
  /\ variant = "remote"
  /\ pc = "idle"
  /\ Len(calls) < MaxCalls
  /\ \E avail \in Readable : \E a \in AliveNext :
     \E gone \in (IF a THEN Gone(avail) ELSE {closed}) :
     \E a2 \in AliveLater(a, Wire(avail)) :
       LET rd == Remote_read_pty(Wire(avail), gone, <<~a, ~a2>>)
           ex == exhaust_buffer(buffer, rd)
       IN /\ nread' = nread + rd.n
          /\ closed' = gone
          /\ alive' = a2
          /\ reads' = IF rd.n > 0 THEN Append(reads, rd.n) ELSE reads
          /\ buffer' = ex.buffer
          /\ sending' = line
          /\ pc' = "send_write"
          /\ mark' = [mark EXCEPT !.sent = TRUE, !.send_no = Len(calls),
                        !.send_hist = Len(line_history),
                        !.send_pos = nread + rd.n, !.owed = 0,
                        !.stale = Len(encode(buffer)) + rd.n]
  /\ UNCHANGED <<stream, current_output_lines, line_history, written, regex,
                 result, calls, tok_pos, scanned, echo, echoed, sink_vars,
                 li_log, raw_log, rr_log, wr_log, aux_vars, variant, exitcode,
                 exitstatus, transport_closed, wpc, printed, ret, wmark>>

\* a _write of send: data is given to stdin.write; send goes on to next, or
\* ends there with the exception that left _write
RemoteSendStep(data, next) ==
  \E outcome \in WriteOutcomes :
    /\ written' = Append(written, data)
    /\ wr_log' = Append(wr_log, [data |-> data, outcome |-> outcome])
    /\ IF Remote_write(outcome) = "raised"
         THEN /\ pc' = "idle"
              /\ calls' = Append(calls, [op |-> "send", regex |-> <<>>,
                                         kind |-> outcome, idx |-> NoIndex])
         ELSE /\ pc' = next
              /\ calls' = IF next = "idle"
                            THEN Append(calls, [op |-> "send", regex |-> <<>>,
                                                kind |-> "none", idx |-> NoIndex])
                            ELSE calls
    /\ UNCHANGED <<stream, nread, closed, buffer, current_output_lines,
                   line_history, regex, sending, result, reads, tok_pos, mark,
                   scanned, echo, echoed, sink_vars, wait_vars, li_log,
                   raw_log, rr_log, aux_vars>>

\* self._write(line)
RemoteSendWrite ==
  /\ variant = "remote"
  /\ pc = "send_write"
  /\ RemoteSendStep(encode(sending), "send_write_lf")

\* self._write(lf, flush=True), and send returns
RemoteSendWriteLf ==
  /\ variant = "remote"
  /\ pc = "send_write_lf"
  /\ RemoteSendStep(encode(<<LF>>), "idle")

\* what the peer produces while the sends are made
SendStreams == {<<>>, <<"a">>, <<"a", LF>>}
RemoteSendInit == InitSessionOn(SendStreams) /\ InitWait("remote", 0)
\* the lines sent: ASCII, and one with a character of two bytes
RemoteSendLines == SendLines \cup {<<"a", E_ACUTE>>}
RemoteSendNext ==
  \/ \E line \in RemoteSendLines : RemoteSendCall(line)
  \/ RemoteSendWrite
  \/ RemoteSendWriteLf
SpecRemoteSend == RemoteSendInit /\ [][RemoteSendNext]_vars

\* the last call was a send that returned normally
SendReturned ==
  /\ pc = "idle"
  /\ calls # <<>>
  /\ calls[Len(calls)].op = "send"
  /\ calls[Len(calls)].kind = "none"
TextAndTerminatorWritten ==
  /\ Len(wr_log) >= 2
  /\ wr_log[Len(wr_log) - 1] = [data |-> encode(sending), outcome |-> "ok"]
  /\ wr_log[Len(wr_log)] = [data |-> encode(<<LF>>), outcome |-> "ok"]

\* C34: on the remote variant, whenever send returns normally the text and
\* then the line terminator have been written to the channel; a write that
\* fails, by timing out too, never leaves send returning normally.
C34_RemoteSendAllOrError ==
  SendReturned => TextAndTerminatorWritten

\* so it is when no write of the send timed out: a write that fails otherwise
\* ends send with its exception, and the terminator is never written without
\* the text having been given to the channel first
RemoteSendWithoutTimeout ==
  /\ (SendReturned /\ wr_log[Len(wr_log)].outcome # "timeout"
                   /\ wr_log[Len(wr_log) - 1].outcome # "timeout") =>
       TextAndTerminatorWritten
  /\ \A k \in 1..Len(wr_log) :
       /\ wr_log[k].outcome = "OSError" =>
            /\ calls # <<>>
            /\ \E c \in 1..Len(calls) : calls[c].kind = "OSError"
       /\ wr_log[k].data = encode(<<LF>>) =>
            k > 1 /\ wr_log[k - 1].data # encode(<<LF>>)
                  /\ wr_log[k - 1].outcome # "OSError"

\* a send that returned although the write of its text had timed out
SendReturnedTextUnwritten ==
  /\ SendReturned
  /\ wr_log[Len(wr_log) - 1].outcome = "timeout"
  /\ wr_log[Len(wr_log)].outcome = "ok"


\* ------------------------------------------- WrappedSSHClient._retry_ssh
\* retries=3, in exec_command's call and as _retry_ssh's default
Retries == 3
\* how fn(...), and how self.client.connect(...), end: normally, with an
\* SSHException, or with another exception
CallOutcomes == {"ok", "SSHException", "OSError"}
RetryMethods == {"exec_command", "interact"}

\* (mutant) the retry is made while retries >= 0
may_retry_at_zero(retries) == retries >= 0
\* if retries > 0
may_retry(retries) == retries > 0

Event(kind, outcome) == [kind |-> kind, outcome |-> outcome]
\* the call ends: with the value or the exception of the event just made
RetryEnd(kind, ev) ==
  retry' = [retry EXCEPT !.pc = "done", !.events = Append(retry.events, ev),
                         !.result = [kind |-> kind, at |-> Len(retry.events) + 1]]

\* exec_command(...) or interact(): self._retry_ssh(fn, ..., retries=3)
RetryCall(fn) ==
  /\ retry.pc = "none"
  /\ retry' = [retry EXCEPT !.pc = "try", !.fn = fn, !.retries = Retries]
  /\ UNCHANGED <<main_vars, sink_vars, wait_vars, li_log, raw_log, rr_log,
                 wr_log, prog>>

\* try: return fn(*args, **kwargs); except SSHException: retry if
\* retries > 0, else raise
RetryAttempt ==
  /\ retry.pc = "try"
  /\ \E outcome \in CallOutcomes :
       LET ev == Event("attempt", outcome)
       IN IF outcome = "ok" THEN RetryEnd("returned", ev)
          ELSE IF outcome # "SSHException" THEN RetryEnd(outcome, ev)
          ELSE IF may_retry(retry.retries)
            THEN retry' = [retry EXCEPT !.pc = "reconnect",
                                        !.events = Append(retry.events, ev)]
          ELSE RetryEnd("SSHException", ev)
  /\ UNCHANGED <<main_vars, sink_vars, wait_vars, li_log, raw_log, rr_log,
                 wr_log, prog>>

\* self.client.connect(...), its SSHException caught and logged, and the
\* recursive call with retries - 1
RetryReconnect ==
  /\ retry.pc = "reconnect"
  /\ \E outcome \in CallOutcomes :
       LET ev == Event("reconnect", outcome)
       IN IF outcome \in {"ok", "SSHException"}
            THEN retry' = [retry EXCEPT !.pc = "try",
                                        !.retries = retry.retries - 1,
                                        !.events = Append(retry.events, ev)]
          ELSE RetryEnd(outcome, ev)
  /\ UNCHANGED <<main_vars, sink_vars, wait_vars, li_log, raw_log, rr_log,
                 wr_log, prog>>

RetryInit == InitSessionOn({<<>>}) /\ InitWait("remote", 0)
RetryNext ==
  \/ \E fn \in RetryMethods : RetryCall(fn)
  \/ RetryAttempt
  \/ RetryReconnect
SpecRetry == RetryInit /\ [][RetryNext]_vars

Attempts == {k \in 1..Len(retry.events) : retry.events[k].kind = "attempt"}
Reconnects == {k \in 1..Len(retry.events) : retry.events[k].kind = "reconnect"}
FailedSSH(k) == retry.events[k].outcome = "SSHException"

\* C35: exec_command attempts the command at most 4 times; each attempt
\* after the first is preceded by exactly one reconnect, made after an
\* attempt that raised SSHException; the result of the first attempt that
\* raises no SSHException is returned and no attempt follows it; when all 4
\* attempts raise SSHException the call raises the last one; an
\* SSHException of a reconnect is followed by the next attempt.
C35_BoundedRetry ==
  /\ Cardinality(Attempts) <= 4
  /\ Cardinality(Reconnects) <= 3
  /\ \A k \in Attempts :
       k > 1 => /\ k - 1 \in Reconnects
                /\ k - 2 \in Attempts
                /\ FailedSSH(k - 2)
  /\ \A k \in Reconnects : k - 1 \in Attempts /\ FailedSSH(k - 1)
  /\ \A k \in Attempts :
       ~FailedSSH(k) =>
         /\ k = Len(retry.events)
         /\ retry.pc = "done"
         /\ retry.result.at = k
         /\ retry.events[k].outcome = "ok" => retry.result.kind = "returned"
  /\ retry.result.kind = "returned" =>
       /\ retry.events[retry.result.at] = Event("attempt", "ok")
       /\ \A k \in Attempts : k < retry.result.at => FailedSSH(k)
  /\ (/\ retry.pc = "done"
      /\ (\A k \in Attempts : FailedSSH(k))
      /\ (\A k \in Reconnects : retry.events[k].outcome # "OSError")) =>
       /\ Cardinality(Attempts) = 4
       /\ retry.result = [kind |-> "SSHException", at |-> Len(retry.events)]
       /\ Len(retry.events) \in Attempts
  /\ \A k \in Reconnects :
       retry.events[k].outcome = "SSHException" =>
         (retry.pc = "try" /\ k = Len(retry.events)) \/ k + 1 \in Attempts

\* three attempts and two reconnects failed with SSHException, the third
\* reconnect succeeded and the fourth attempt returned
C35_Witness ==
  /\ retry.fn = "exec_command"
  /\ retry.pc = "done"
  /\ Cardinality(Attempts) = 4
  /\ retry.result.kind = "returned"
  /\ retry.events[2].outcome = "SSHException"
  /\ retry.events[6].outcome = "ok"


\* ------------------------------------------------ RsyncProgress.progress
\* the lists progress() gives to expect_match: the sentinel first, then the
\* progress line, (the file name,) and the summary line.  A progress line is
\* "p" and the digit of its to-check total.
ProgressLine == Str(<<"p", Dot>>)
FileNameLine == Str(<<"f">>)
SummaryLine == Str(<<"s">>)
ProgressPatterns(multiple) ==
  IF multiple THEN <<Sentinel, ProgressLine, FileNameLine, SummaryLine>>
  ELSE <<Sentinel, ProgressLine, SummaryLine>>

\* what rsync writes: progress lines with a to-check total of 0 or 1, file
\* names, summary lines, and a byte that does not decode
ProgressTexts ==
  {<<"p", "0", LF>>, <<"p", "1", LF>>, <<"f", LF>>, <<"s", LF>>, <<LO>>}
RECURSIVE TextsOf(_)
TextsOf(k) ==
  IF k = 0 THEN {<<>>}
  ELSE LET shorter == TextsOf(k - 1)
       IN shorter \cup {s \o t : s \in shorter, t \in ProgressTexts}
ProgressStreams == TextsOf(MaxReports)

\* int(check_total), the last group of the progress line that matched
check_total_of(text) == IF Len(text) >= 2 /\ text[2] = "1" THEN 1 ELSE 0

\* "if progress_bar": there is a bar, and tqdm.__bool__ holds, which is
\* total > 0 for a bar made with a total
tqdm_bool(p) == p.bar # "none" /\ p.total > 0

\* one pass of _single_progress's loop on (match, i): return on 0, update on
\* 1, update and close on 2
_single_progress(p, i) ==
  IF i = 0 THEN [p EXCEPT !.pc = "done", !.result = "returned"]
  ELSE IF i = 2 THEN [p EXCEPT !.bar = "closed", !.progress_closed = TRUE]
  ELSE p

\* one pass of _multiple_progress's loop on (match, i), check_total being
\* the last group of a progress line, and on 0 the lines after the loop.  A
\* progress line creates the bar with its total, or raises the total of the
\* bar there is; the summary closes a bar that is true and sets
\* progress_closed in any case; the lines after the loop close a bar that is
\* true unless progress_closed.
_multiple_progress(p, i, check_total) ==
  IF i = 1
    THEN IF p.bar = "none"
           THEN [p EXCEPT !.bar = "open", !.total = check_total]
           ELSE [p EXCEPT !.total = IF p.total < check_total
                                      THEN check_total ELSE p.total]
  ELSE IF i = 2 THEN p
  ELSE IF i = 3
    THEN [p EXCEPT !.bar = IF tqdm_bool(p) THEN "closed" ELSE p.bar,
                   !.progress_closed = TRUE]
  ELSE [p EXCEPT !.pc = "done", !.result = "returned",
                 !.bar = IF tqdm_bool(p) /\ ~p.progress_closed
                           THEN "closed" ELSE p.bar]

\* progress(): _single_progress creates its bar before the loop,
\* _multiple_progress starts without one
ProgressCall(multiple) ==
  /\ prog.pc = "none"
  /\ prog' = [prog EXCEPT !.pc = "loop", !.multiple = multiple,
                          !.bar = IF multiple THEN "none" ELSE "open"]
  /\ UNCHANGED <<main_vars, sink_vars, wait_vars, li_log, raw_log, rr_log,
                 wr_log, retry>>

\* the loop's interact.expect_match([...]), up to its loop: with echo and a
\* printfn on the multiple-file path, without echo on the single-file path
ProgressExpect ==
  /\ prog.pc = "loop"
  /\ expect_match_begin(ProgressPatterns(prog.multiple), prog.multiple)
  /\ prog' = [prog EXCEPT !.pc = "expect"]
  /\ UNCHANGED <<sink_vars, wait_vars, li_log, raw_log, rr_log, wr_log, retry>>

\* the passes of that expect_match on the session
ProgressExpectLoop == prog.pc = "expect" /\ ExpectLoop

\* the pass of progress()'s loop on what expect_match ended with; an
\* exception of expect_match leaves progress()
ProgressPass ==
  /\ prog.pc = "expect"
  /\ pc = "idle"
  /\ IF result.kind # "index"
       THEN prog' = [prog EXCEPT !.pc = "done", !.result = result.kind]
       ELSE LET p == [prog EXCEPT !.pc = "loop",
                                  !.seen = Append(prog.seen, result.idx)]
            IN prog' = IF prog.multiple
                         THEN _multiple_progress(p, result.idx,
                                                 check_total_of(result.text))
                         ELSE _single_progress(p, result.idx)
  /\ UNCHANGED <<main_vars, sink_vars, wait_vars, li_log, raw_log, rr_log,
                 wr_log, retry>>

ProgressInit == InitSessionOn(ProgressStreams) /\ InitWait("local", 0)
ProgressNext ==
  \/ \E multiple \in BOOLEAN : ProgressCall(multiple)
  \/ ProgressExpect
  \/ ProgressExpectLoop
  \/ ProgressPass
SpecProgress == ProgressInit /\ [][ProgressNext]_vars

SeenAt(i) == {k \in 1..Len(prog.seen) : prog.seen[k] = i}

\* C36: progress() returns only after expect_match has reported the end of
\* the stream (index 0), never raises ShellExpectEOF, and has closed every
\* bar it created when it returns, on the single-file and on the
\* multiple-file path, with or without a summary line before the end.
C36_ReturnsAtEofWithBarsClosed ==
  prog.pc = "done" =>
    /\ prog.result # "ShellExpectEOF"
    /\ prog.result = "returned" =>
         /\ prog.seen # <<>>
         /\ SeenAt(0) = {Len(prog.seen)}
         /\ prog.bar # "open"

\* progress() ends by returning or by the UnicodeDecodeError of a read, and
\* returns only at the end of the stream; the bar is left open on the
\* single-file path exactly when no summary line came, and on the
\* multiple-file path only when a summary line came before the bar was
\* there or while its total was 0, or when its total is 0 still
ReturnsAtEof ==
  prog.pc = "done" =>
    /\ prog.result \in {"returned", "UnicodeDecodeError"}
    /\ prog.result = "returned" =>
         /\ prog.seen # <<>>
         /\ SeenAt(0) = {Len(prog.seen)}
         /\ line_history # <<>>
         /\ line_history[Len(line_history)] = TokEOF
         /\ IF prog.multiple
              THEN /\ prog.bar = "open" =>
                        /\ SeenAt(1) # {}
                        /\ prog.total = 0 \/ SeenAt(3) # {}
                   /\ (SeenAt(1) # {} /\ SeenAt(3) = {} /\ prog.total > 0) =>
                        prog.bar = "closed"
                   /\ (SeenAt(1) # {} /\ prog.total = 0) => prog.bar = "open"
              ELSE prog.bar = "open" <=> SeenAt(2) = {}

\* the single-file path returned, after progress lines and no summary, with
\* its bar open
SingleReturnedBarOpen ==
  /\ prog.pc = "done"
  /\ ~prog.multiple
  /\ prog.seen = <<1, 1, 0>>
  /\ prog.bar = "open"

====
